---- MODULE Spec2Model ----
(***************************************************************************)
(* Contact-table ingestion and batch dispatch of the WhatsApp sender:      *)
(* app_core/contacts.py, app_core/messaging.py, app_core/node_api.py,      *)
(* app_core/errors.py and the /api/send handler of app_core/routes.py.     *)
(* Python strings are TLA+ strings; a character is a string of length 1.   *)
(***************************************************************************)
EXTENDS Integers, Sequences, FiniteSets, TLC

(***************************************************************************)
(* Bounds of the model.                                                    *)
(***************************************************************************)
MaxRows == 3

(***************************************************************************)
(* Python values and string primitives.                                    *)
(***************************************************************************)
\* Python's None, kept apart from every string the model uses.
None == "<None>"

\* bool(value) of a string or None.
Truthy(v) == v /= None /\ v /= ""

Ch(s, i) == SubSeq(s, i, i)

\* s[a-1:b] of Python: a slice never fails, it is cut at the end of s.
Slice(s, a, b) ==
    IF a > b \/ a > Len(s) THEN ""
    ELSE SubSeq(s, a, IF b > Len(s) THEN Len(s) ELSE b)

Whitespace == {" ", "\t", "\n", "\r"}

Digits == {"0", "1", "2", "3", "4", "5", "6", "7", "8", "9"}

LowerLetters == "abcdefghijklmnopqrstuvwxyz"

UpperLetters == "ABCDEFGHIJKLMNOPQRSTUVWXYZ"

UpperChar(c) ==
    IF \E i \in 1..26 : Ch(LowerLetters, i) = c
    THEN Ch(UpperLetters, CHOOSE i \in 1..26 : Ch(LowerLetters, i) = c)
    ELSE c

LowerChar(c) ==
    IF \E i \in 1..26 : Ch(UpperLetters, i) = c
    THEN Ch(LowerLetters, CHOOSE i \in 1..26 : Ch(UpperLetters, i) = c)
    ELSE c

RECURSIVE Upper(_)
Upper(s) == IF s = "" THEN "" ELSE UpperChar(Ch(s, 1)) \o Upper(SubSeq(s, 2, Len(s)))

RECURSIVE Lower(_)
Lower(s) == IF s = "" THEN "" ELSE LowerChar(Ch(s, 1)) \o Lower(SubSeq(s, 2, Len(s)))

RECURSIVE LStrip(_)
LStrip(s) ==
    IF s /= "" /\ Ch(s, 1) \in Whitespace THEN LStrip(SubSeq(s, 2, Len(s))) ELSE s

RECURSIVE RStrip(_)
RStrip(s) ==
    IF s /= "" /\ Ch(s, Len(s)) \in Whitespace THEN RStrip(SubSeq(s, 1, Len(s) - 1)) ELSE s

Strip(s) == RStrip(LStrip(s))

StartsWith(s, p) == Len(s) >= Len(p) /\ SubSeq(s, 1, Len(p)) = p

EndsWith(s, p) == Len(s) >= Len(p) /\ SubSeq(s, Len(s) - Len(p) + 1, Len(s)) = p

\* Python's `t in s` for strings.
Contains(s, t) ==
    \E i \in 1..(Len(s) - Len(t) + 1) : SubSeq(s, i, i + Len(t) - 1) = t

\* "".join(ch for ch in s if ch in keep)
RECURSIVE KeepChars(_, _)
KeepChars(s, keep) ==
    IF s = "" THEN ""
    ELSE (IF Ch(s, 1) \in keep THEN Ch(s, 1) ELSE "") \o KeepChars(SubSeq(s, 2, Len(s)), keep)

\* s.replace(c, "") for each single character c of drop.
RECURSIVE DropChars(_, _)
DropChars(s, drop) ==
    IF s = "" THEN ""
    ELSE (IF Ch(s, 1) \in drop THEN "" ELSE Ch(s, 1)) \o DropChars(SubSeq(s, 2, Len(s)), drop)

\* s.lstrip(c)
RECURSIVE LStripChar(_, _)
LStripChar(s, c) ==
    IF s /= "" /\ Ch(s, 1) = c THEN LStripChar(SubSeq(s, 2, Len(s)), c) ELSE s

\* str(n) of a non-negative integer.
RECURSIVE IntToStr(_)
IntToStr(n) ==
    IF n < 10 THEN Ch("0123456789", n + 1)
    ELSE IntToStr(n \div 10) \o Ch("0123456789", (n % 10) + 1)

(***************************************************************************)
(* Python dict with insertion order: a sequence of <<key, value>> pairs.   *)
(***************************************************************************)
DictHas(d, k) == \E i \in 1..Len(d) : d[i][1] = k

DictGet(d, k, default) ==
    IF DictHas(d, k) THEN d[CHOOSE i \in 1..Len(d) : d[i][1] = k][2] ELSE default

\* d[k] = v: an existing key keeps its position.
DictSet(d, k, v) ==
    IF DictHas(d, k)
    THEN [i \in 1..Len(d) |-> IF d[i][1] = k THEN <<k, v>> ELSE d[i]]
    ELSE Append(d, <<k, v>>)

(***************************************************************************)
(* Ordering of strings, as sorted() orders them (by code point).           *)
(***************************************************************************)
\* The printable ASCII characters the model uses, in code-point order.
CodePointOrder == " !#$%&'()*+,-./0123456789:;<=>?@ABCDEFGHIJKLMNOPQRSTUVWXYZ[]^_abcdefghijklmnopqrstuvwxyz{|}~"

Ord(c) ==
    IF \E i \in 1..Len(CodePointOrder) : Ch(CodePointOrder, i) = c
    THEN CHOOSE i \in 1..Len(CodePointOrder) : Ch(CodePointOrder, i) = c
    ELSE 0

RECURSIVE StrLess(_, _)
StrLess(a, b) ==
    IF b = "" THEN FALSE
    ELSE IF a = "" THEN TRUE
    ELSE IF Ch(a, 1) = Ch(b, 1) THEN StrLess(SubSeq(a, 2, Len(a)), SubSeq(b, 2, Len(b)))
    ELSE Ord(Ch(a, 1)) < Ord(Ch(b, 1))

\* sorted(S) of a set of strings.
RECURSIVE Sorted(_)
Sorted(S) ==
    IF S = {} THEN <<>>
    ELSE LET least == CHOOSE x \in S : \A y \in S \ {x} : StrLess(x, y)
         IN <<least>> \o Sorted(S \ {least})

\* sep.join(parts)
RECURSIVE Join(_, _)
Join(sep, parts) ==
    IF parts = <<>> THEN ""
    ELSE IF Len(parts) = 1 THEN parts[1]
    ELSE parts[1] \o sep \o Join(sep, Tail(parts))

(***************************************************************************)
(* errors.py: the exceptions the core raises, and what a call returns.     *)
(***************************************************************************)
AppError(code, message, status, details) ==
    [type |-> "AppError", code |-> code, message |-> message,
     status |-> status, details |-> details]

\* Built-in exceptions carry only their text; str(exc) is the message.
ValueError(message) ==
    [type |-> "ValueError", code |-> "", message |-> message,
     status |-> 0, details |-> None]

AttributeError(message) ==
    [type |-> "AttributeError", code |-> "", message |-> message,
     status |-> 0, details |-> None]

NoError == [type |-> "none", code |-> "", message |-> "", status |-> 0, details |-> None]

\* A call either returns a value or raises.
Return(v) == [raised |-> FALSE, value |-> v, error |-> NoError]

Raise(e) == [raised |-> TRUE, value |-> None, error |-> e]

(***************************************************************************)
(* config.py                                                               *)
(***************************************************************************)
DEFAULT_COUNTRY_CODE == "961"

\* BATCH_SEND_DELAY_SECONDS, in milliseconds (the default "0.8").
BATCH_SEND_DELAY_MS == 800

(***************************************************************************)
(* messaging.py: normalize_to_whatsapp_id                                  *)
(***************************************************************************)
\* normalize_with_country_code that takes only "+" for the international
\* marker: a leading 00 is stripped with the other leading zeros.
normalize_without_00_marker(raw_phone, country_code) ==
    IF ~Truthy(raw_phone) \/ Strip(raw_phone) = ""
    THEN Raise(ValueError("Phone number is required."))
    ELSE
      LET stripped == Strip(raw_phone)
          unsuffixed == IF EndsWith(stripped, "@c.us")
                        THEN SubSeq(stripped, 1, Len(stripped) - 5)
                        ELSE stripped
          value == DropChars(unsuffixed, {" ", "-", "(", ")"})
          explicit_international == StartsWith(value, "+")
          unmarked == IF StartsWith(value, "+") THEN SubSeq(value, 2, Len(value))
                      ELSE value
          digits == KeepChars(unmarked, Digits)
          country_digits == KeepChars(country_code, Digits)
          local_digits == LStripChar(digits, "0")
      IN IF digits = "" THEN Raise(ValueError("Phone number must contain digits."))
         ELSE IF country_digits = ""
              THEN Raise(ValueError("DEFAULT_COUNTRY_CODE must contain digits."))
         ELSE IF explicit_international \/ StartsWith(digits, country_digits)
              THEN Return(digits \o "@c.us")
         ELSE IF local_digits = "" THEN Raise(ValueError("Phone number is invalid."))
         ELSE Return(country_digits \o local_digits \o "@c.us")

\* The body of normalize_to_whatsapp_id under a value of the module's
\* DEFAULT_COUNTRY_CODE (the environment sets it).
normalize_with_country_code(raw_phone, country_code) ==
    IF ~Truthy(raw_phone) \/ Strip(raw_phone) = ""
    THEN Raise(ValueError("Phone number is required."))
    ELSE
      LET stripped == Strip(raw_phone)
          unsuffixed == IF EndsWith(stripped, "@c.us")
                        THEN SubSeq(stripped, 1, Len(stripped) - 5)
                        ELSE stripped
          value == DropChars(unsuffixed, {" ", "-", "(", ")"})
          explicit_international == StartsWith(value, "+") \/ StartsWith(value, "00")
          unmarked == IF StartsWith(value, "+") THEN SubSeq(value, 2, Len(value))
                      ELSE IF StartsWith(value, "00") THEN SubSeq(value, 3, Len(value))
                      ELSE value
          digits == KeepChars(unmarked, Digits)
          country_digits == KeepChars(country_code, Digits)
          local_digits == LStripChar(digits, "0")
      IN IF digits = "" THEN Raise(ValueError("Phone number must contain digits."))
         ELSE IF country_digits = ""
              THEN Raise(ValueError("DEFAULT_COUNTRY_CODE must contain digits."))
         ELSE IF explicit_international \/ StartsWith(digits, country_digits)
              THEN Return(digits \o "@c.us")
         ELSE IF local_digits = "" THEN Raise(ValueError("Phone number is invalid."))
         ELSE Return(country_digits \o local_digits \o "@c.us")

normalize_to_whatsapp_id(raw_phone) ==
    normalize_with_country_code(raw_phone, DEFAULT_COUNTRY_CODE)

(***************************************************************************)
(* messaging.py: render_message_template                                   *)
(***************************************************************************)
\* BuildLookup with the row's keys kept in their own case.
RECURSIVE BuildLookup_keys_not_lowered(_, _)
BuildLookup_keys_not_lowered(row_map, acc) ==
    IF row_map = <<>> THEN acc
    ELSE BuildLookup_keys_not_lowered(Tail(row_map),
                     DictSet(acc, Strip(row_map[1][1]), row_map[1][2]))

\* lookup = {str(key).strip().lower(): str(value) for key, value in row_map.items()}
RECURSIVE BuildLookup(_, _)
BuildLookup(row_map, acc) ==
    IF row_map = <<>> THEN acc
    ELSE BuildLookup(Tail(row_map),
                     DictSet(acc, Lower(Strip(row_map[1][1])), row_map[1][2]))

\* First index >= i of a brace in t, or 0.
RECURSIVE NextBrace(_, _)
NextBrace(t, i) ==
    IF i > Len(t) THEN 0
    ELSE IF Ch(t, i) \in {"{", "}"} THEN i
    ELSE NextBrace(t, i + 1)

\* PLACEHOLDER_PATTERN = {{\s*([^{}]+?)\s*}} matched at position i of t:
\* the index of the closing }} or 0 when there is no match at i.
PlaceholderClose(t, i) ==
    IF Slice(t, i, i + 1) /= "{{" THEN 0
    ELSE LET j == NextBrace(t, i + 2)
         IN IF j > i + 2 /\ Slice(t, j, j + 1) = "}}" THEN j ELSE 0

\* SubPlaceholders that gives up at the first unresolved placeholder: only
\* that name is collected.
RECURSIVE SubPlaceholders_first_miss(_, _, _)
SubPlaceholders_first_miss(t, i, lookup) ==
    IF i > Len(t) THEN [text |-> "", missing |-> {}]
    ELSE LET j == PlaceholderClose(t, i)
         IN IF j = 0
            THEN LET rest == SubPlaceholders_first_miss(t, i + 1, lookup)
                 IN [text |-> Ch(t, i) \o rest.text, missing |-> rest.missing]
            ELSE LET raw_key == Strip(SubSeq(t, i + 2, j - 1))
                     key == Lower(raw_key)
                     rest == SubPlaceholders_first_miss(t, j + 2, lookup)
                 IN IF DictHas(lookup, key)
                    THEN [text |-> DictGet(lookup, key, "") \o rest.text,
                          missing |-> rest.missing]
                    ELSE [text |-> SubSeq(t, i, j + 1), missing |-> {raw_key}]

\* PLACEHOLDER_PATTERN.sub(replace, template) from position i on: the
\* rendered text and the missing_keys the replace callback collected.
RECURSIVE SubPlaceholders(_, _, _)
SubPlaceholders(t, i, lookup) ==
    IF i > Len(t) THEN [text |-> "", missing |-> {}]
    ELSE LET j == PlaceholderClose(t, i)
         IN IF j = 0
            THEN LET rest == SubPlaceholders(t, i + 1, lookup)
                 IN [text |-> Ch(t, i) \o rest.text, missing |-> rest.missing]
            ELSE LET raw_key == Strip(SubSeq(t, i + 2, j - 1))
                     key == Lower(raw_key)
                     rest == SubPlaceholders(t, j + 2, lookup)
                 IN IF DictHas(lookup, key)
                    THEN [text |-> DictGet(lookup, key, "") \o rest.text,
                          missing |-> rest.missing]
                    ELSE [text |-> SubSeq(t, i, j + 1) \o rest.text,
                          missing |-> rest.missing \cup {raw_key}]

render_message_template(template, row_map) ==
    IF ~Truthy(template) THEN Return("")
    ELSE LET lookup == BuildLookup(row_map, <<>>)
             scan == SubPlaceholders(template, 1, lookup)
             row_ref == DictGet(row_map, "__row_index", "?")
         IN IF scan.missing /= {}
            THEN Raise(AppError("MISSING_TEMPLATE_VARIABLE",
                     "Missing column(s) in contacts file for placeholders: "
                        \o Join(", ", Sorted(scan.missing)) \o ".",
                     400, "Row " \o row_ref))
            ELSE Return(scan.text)

(***************************************************************************)
(* contacts.py: the Table Reader.  A contacts file is its name, whether    *)
(* its bytes are empty, whether the parser library can read it, and the    *)
(* rows of cells the library (csv.reader, openpyxl) yields for it.         *)
(***************************************************************************)
ALLOWED_CONTACT_EXTENSIONS == {".xlsx", ".xlsm", ".xltx", ".xltm", ".csv"}

\* Index of the last "." of name, or 0.
RECURSIVE LastDot(_, _)
LastDot(name, i) ==
    IF i = 0 THEN 0
    ELSE IF Ch(name, i) = "." THEN i
    ELSE LastDot(name, i - 1)

\* Path(filename).suffix.lower()
SuffixLower(filename) ==
    LET dot == LastDot(filename, Len(filename))
    IN IF dot > 1 /\ dot < Len(filename)
       THEN Lower(SubSeq(filename, dot, Len(filename)))
       ELSE ""

is_valid_contacts_filename(filename) ==
    SuffixLower(filename) \in ALLOWED_CONTACT_EXTENSIONS

\* Cells are text or None here; text takes the str(value).strip() branch.
cell_to_text(value) == IF value = None THEN "" ELSE Strip(value)

MaxOf(S) == CHOOSE m \in S : \A x \in S : x <= m

\* [cell_to_text(raw_row[idx] if idx < len(raw_row) else "") for idx in range(max_cols)]
RowValues(raw_row, max_cols) ==
    [idx \in 1..max_cols |->
        cell_to_text(IF idx <= Len(raw_row) THEN raw_row[idx] ELSE "")]

\* HasContent that looks at the first cell only.
HasContent_first_cell(row_values) ==
    Len(row_values) > 0 /\ Strip(row_values[1]) /= ""

\* any(item.strip() for item in row_values)
HasContent(row_values) ==
    \E idx \in 1..Len(row_values) : Strip(row_values[idx]) /= ""

\* DefaultedHeaders that numbers the columns from 0.
DefaultedHeaders_zero_based(raw_headers, max_cols) ==
    [idx \in 1..max_cols |->
        LET header_text == IF idx <= Len(raw_headers) THEN raw_headers[idx] ELSE ""
        IN IF header_text /= "" THEN header_text ELSE "Column " \o IntToStr(idx - 1)]

\* header_text or f"Column {idx + 1}" for every column position.
DefaultedHeaders(raw_headers, max_cols) ==
    [idx \in 1..max_cols |->
        LET header_text == IF idx <= Len(raw_headers) THEN raw_headers[idx] ELSE ""
        IN IF header_text /= "" THEN header_text ELSE "Column " \o IntToStr(idx)]

EmptyTable == [headers |-> <<>>, rows |-> <<>>]

read_table_from_csv(raw_rows) ==
    IF raw_rows = <<>> THEN EmptyTable
    ELSE
      LET raw_headers == [idx \in 1..Len(raw_rows[1]) |->
                             Strip(cell_to_text(raw_rows[1][idx]))]
          data_rows == Tail(raw_rows)
          max_cols == MaxOf({Len(raw_headers)}
                            \cup {Len(data_rows[r]) : r \in 1..Len(data_rows)})
          padded == [r \in 1..Len(data_rows) |-> RowValues(data_rows[r], max_cols)]
      IN IF max_cols = 0 THEN EmptyTable
         ELSE [headers |-> DefaultedHeaders(raw_headers, max_cols),
               rows |-> SelectSeq(padded, HasContent)]

\* The sheet's rows are raw_rows; sheet.max_column is the widest row.
read_table_from_excel(raw_rows) ==
    IF raw_rows = <<>> THEN EmptyTable
    ELSE
      LET header_row == raw_rows[1]
          max_column == MaxOf({Len(raw_rows[r]) : r \in 1..Len(raw_rows)})
          max_cols == MaxOf({Len(header_row), max_column})
          raw_headers == [idx \in 1..Len(header_row) |->
                             Strip(cell_to_text(header_row[idx]))]
          data_rows == Tail(raw_rows)
          padded == [r \in 1..Len(data_rows) |-> RowValues(data_rows[r], max_cols)]
      IN IF max_cols = 0 THEN EmptyTable
         ELSE [headers |-> DefaultedHeaders(raw_headers, max_cols),
               rows |-> SelectSeq(padded, HasContent)]

read_contacts_table(file, error_code, error_message) ==
    IF ~file.readable
    THEN Raise(AppError(error_code, error_message, 400, "unreadable"))
    ELSE IF SuffixLower(file.filename) = ".csv"
         THEN Return(read_table_from_csv(file.raw_rows))
         ELSE Return(read_table_from_excel(file.raw_rows))

(***************************************************************************)
(* contacts.py: the Contact Row Model (parse_contacts_rows).               *)
(***************************************************************************)
\* normalized_headers.index("NUMBERS")
FirstIndex(seq, x) == CHOOSE i \in 1..Len(seq) : seq[i] = x /\ \A j \in 1..(i - 1) : seq[j] /= x

\* The loop over enumerate(headers) that fills row_map, from col_idx on.
RECURSIVE FillRowMap(_, _, _, _)
FillRowMap(headers, row_as_text, col_idx, row_map) ==
    IF col_idx > Len(headers) THEN row_map
    ELSE LET header_name == Strip(headers[col_idx])
             value == IF col_idx <= Len(row_as_text) THEN row_as_text[col_idx] ELSE ""
         IN IF header_name = ""
            THEN FillRowMap(headers, row_as_text, col_idx + 1, row_map)
            ELSE FillRowMap(headers, row_as_text, col_idx + 1,
                     DictSet(DictSet(row_map, header_name, value),
                             Upper(header_name), value))

ContactRow(headers, row_as_text, row_idx) ==
    DictSet(FillRowMap(headers, row_as_text, 1, <<>>), "__row_index", IntToStr(row_idx))

\* The loop over enumerate(data_rows, start=2), from position r on.
RECURSIVE CollectRows(_, _, _, _)
CollectRows(headers, data_rows, number_col_idx, r) ==
    IF r > Len(data_rows) THEN <<>>
    ELSE LET row_as_text == data_rows[r]
             number_value == IF number_col_idx <= Len(row_as_text)
                             THEN row_as_text[number_col_idx] ELSE ""
             rest == CollectRows(headers, data_rows, number_col_idx, r + 1)
         IN IF Strip(number_value) = "" THEN rest
            ELSE <<ContactRow(headers, row_as_text, r + 1)>> \o rest

\* parse_contacts_rows without the check that some row survived: a table
\* whose rows were all skipped yields an empty list.
parse_contacts_rows_empty_result(file) ==
    IF ~is_valid_contacts_filename(file.filename)
    THEN Raise(AppError("INVALID_CONTACTS_FILE",
                        "Upload a valid contacts file (.xlsx or .csv).", 400, None))
    ELSE
      LET table == read_contacts_table(file, "EXCEL_PARSE_ERROR",
                     "Could not read the contacts file. Please check the file format.")
      IN IF table.raised THEN table
         ELSE
           LET headers == table.value.headers
               data_rows == table.value.rows
               normalized_headers == [i \in 1..Len(headers) |-> Upper(headers[i])]
           IN IF headers = <<>>
              THEN Raise(AppError("EXCEL_EMPTY", "Contacts file is empty.", 400, None))
              ELSE IF \A i \in 1..Len(headers) : normalized_headers[i] /= "NUMBERS"
              THEN Raise(AppError("EXCEL_MISSING_NUMBERS",
                     "Contacts file must contain a \"NUMBERS\" column in the first row.",
                     400, None))
              ELSE Return(CollectRows(headers, data_rows,
                                      FirstIndex(normalized_headers, "NUMBERS"), 1))

\* parse_contacts_rows looking for NUMBERS inside the header names instead
\* of comparing the whole name.
parse_contacts_rows_substring_match(file) ==
    IF ~is_valid_contacts_filename(file.filename)
    THEN Raise(AppError("INVALID_CONTACTS_FILE",
                        "Upload a valid contacts file (.xlsx or .csv).", 400, None))
    ELSE
      LET table == read_contacts_table(file, "EXCEL_PARSE_ERROR",
                     "Could not read the contacts file. Please check the file format.")
      IN IF table.raised THEN table
         ELSE
           LET headers == table.value.headers
               data_rows == table.value.rows
               normalized_headers == [i \in 1..Len(headers) |-> Upper(headers[i])]
               matching == {i \in 1..Len(headers) : Contains(normalized_headers[i], "NUMBERS")}
           IN IF headers = <<>>
              THEN Raise(AppError("EXCEL_EMPTY", "Contacts file is empty.", 400, None))
              ELSE IF matching = {}
              THEN Raise(AppError("EXCEL_MISSING_NUMBERS",
                     "Contacts file must contain a \"NUMBERS\" column in the first row.",
                     400, None))
              ELSE
                LET number_col_idx == CHOOSE i \in matching : \A j \in matching : i <= j
                    rows == CollectRows(headers, data_rows, number_col_idx, 1)
                IN IF rows = <<>>
                   THEN Raise(AppError("EXCEL_NO_ROWS",
                          "No valid rows found. Ensure \"NUMBERS\" has values.", 400, None))
                   ELSE Return(rows)

parse_contacts_rows(file) ==
    IF ~is_valid_contacts_filename(file.filename)
    THEN Raise(AppError("INVALID_CONTACTS_FILE",
                        "Upload a valid contacts file (.xlsx or .csv).", 400, None))
    ELSE
      LET table == read_contacts_table(file, "EXCEL_PARSE_ERROR",
                     "Could not read the contacts file. Please check the file format.")
      IN IF table.raised THEN table
         ELSE
           LET headers == table.value.headers
               data_rows == table.value.rows
               normalized_headers == [i \in 1..Len(headers) |-> Upper(headers[i])]
           IN IF headers = <<>>
              THEN Raise(AppError("EXCEL_EMPTY", "Contacts file is empty.", 400, None))
              ELSE IF \A i \in 1..Len(headers) : normalized_headers[i] /= "NUMBERS"
              THEN Raise(AppError("EXCEL_MISSING_NUMBERS",
                     "Contacts file must contain a \"NUMBERS\" column in the first row.",
                     400, None))
              ELSE
                LET number_col_idx == FirstIndex(normalized_headers, "NUMBERS")
                    rows == CollectRows(headers, data_rows, number_col_idx, 1)
                IN IF rows = <<>>
                   THEN Raise(AppError("EXCEL_NO_ROWS",
                          "No valid rows found. Ensure \"NUMBERS\" has values.", 400, None))
                   ELSE Return(rows)

(***************************************************************************)
(* The csv module, excel dialect: the text csv.writer writes for a list of *)
(* rows, and the rows csv.reader yields for a text.                        *)
(***************************************************************************)
\* csv_writer that leaves every field unquoted.
csv_writer_unquoted(table) ==
    LET RECURSIVE Lines(_)
        Lines(r) == IF r > Len(table) THEN ""
                    ELSE Join(",", table[r]) \o "\r\n" \o Lines(r + 1)
    IN Lines(1)

\* writer.writerow for every row: a field that holds the delimiter, the
\* quote character or a line terminator is quoted with its quotes doubled,
\* and so is the only field of a row when it is empty.
csv_writer(table) ==
    LET Special(c) == c \in {",", "\"", "\r", "\n"}
        RECURSIVE Doubled(_)
        Doubled(f) == IF f = "" THEN ""
                      ELSE (IF Ch(f, 1) = "\"" THEN "\"\"" ELSE Ch(f, 1))
                           \o Doubled(SubSeq(f, 2, Len(f)))
        Field(row, c) ==
            IF (\E i \in 1..Len(row[c]) : Special(Ch(row[c], i)))
               \/ (Len(row) = 1 /\ row[c] = "")
            THEN "\"" \o Doubled(row[c]) \o "\""
            ELSE row[c]
        Line(row) == Join(",", [c \in 1..Len(row) |-> Field(row, c)]) \o "\r\n"
        RECURSIVE Lines(_)
        Lines(r) == IF r > Len(table) THEN "" ELSE Line(table[r]) \o Lines(r + 1)
    IN Lines(1)

\* list(csv.reader(io.StringIO(text))): the parser of the csv module, fed
\* the lines of the text (each ends after its "\n") character by character
\* and an end-of-line event after each line.  ok is FALSE when the parser
\* raises csv.Error.
csv_reader(text) ==
    LET EOL == "<EOL>"
        SaveField(s) == [s EXCEPT !.record = Append(@, s.field), !.field = ""]
        AddChar(s, c) == [s EXCEPT !.field = @ \o c]
        EndOfField(s, c) ==
            [SaveField(s) EXCEPT !.state = IF c = EOL THEN "START_RECORD" ELSE "EAT_CRNL"]
        StartField(s, c) ==
            IF c \in {"\n", "\r", EOL} THEN EndOfField(s, c)
            ELSE IF c = "\"" THEN [s EXCEPT !.state = "IN_QUOTED_FIELD"]
            ELSE IF c = "," THEN [SaveField(s) EXCEPT !.state = "START_FIELD"]
            ELSE [AddChar(s, c) EXCEPT !.state = "IN_FIELD"]
        Step(s, c) ==
            IF ~s.ok THEN s
            ELSE IF s.state = "START_RECORD"
            THEN IF c = EOL THEN s
                 ELSE IF c \in {"\n", "\r"} THEN [s EXCEPT !.state = "EAT_CRNL"]
                 ELSE StartField(s, c)
            ELSE IF s.state = "START_FIELD" THEN StartField(s, c)
            ELSE IF s.state = "IN_FIELD"
            THEN IF c \in {"\n", "\r", EOL} THEN EndOfField(s, c)
                 ELSE IF c = "," THEN [SaveField(s) EXCEPT !.state = "START_FIELD"]
                 ELSE AddChar(s, c)
            ELSE IF s.state = "IN_QUOTED_FIELD"
            THEN IF c = EOL THEN s
                 ELSE IF c = "\"" THEN [s EXCEPT !.state = "QUOTE_IN_QUOTED_FIELD"]
                 ELSE AddChar(s, c)
            ELSE IF s.state = "QUOTE_IN_QUOTED_FIELD"
            THEN IF c = "\"" THEN [AddChar(s, c) EXCEPT !.state = "IN_QUOTED_FIELD"]
                 ELSE IF c = "," THEN [SaveField(s) EXCEPT !.state = "START_FIELD"]
                 ELSE IF c \in {"\n", "\r", EOL} THEN EndOfField(s, c)
                 ELSE [AddChar(s, c) EXCEPT !.state = "IN_FIELD"]
            ELSE \* EAT_CRNL
                 IF c \in {"\n", "\r"} THEN s
                 ELSE IF c = EOL THEN [s EXCEPT !.state = "START_RECORD"]
                 ELSE [s EXCEPT !.ok = FALSE]
        \* After a line: the record is yielded unless a quoted field goes on.
        EndOfLine(s) ==
            IF s.ok /\ s.state = "START_RECORD"
            THEN [s EXCEPT !.rows = Append(@, s.record), !.record = <<>>]
            ELSE s
        RECURSIVE Run(_, _)
        Run(i, s) ==
            IF ~s.ok \/ i > Len(text) THEN s
            ELSE IF Ch(text, i) = "\n" \/ i = Len(text)
            THEN Run(i + 1, EndOfLine(Step(Step(s, Ch(text, i)), EOL)))
            ELSE Run(i + 1, Step(s, Ch(text, i)))
        \* End of input inside a record: the field read so far is kept.
        Finish(s) ==
            IF s.ok /\ (s.field /= "" \/ s.state = "IN_QUOTED_FIELD")
            THEN [ok |-> TRUE, rows |-> Append(s.rows, Append(s.record, s.field))]
            ELSE [ok |-> s.ok, rows |-> s.rows]
    IN Finish(Run(1, [state |-> "START_RECORD", field |-> "", record |-> <<>>,
                      rows |-> <<>>, ok |-> TRUE]))

(***************************************************************************)
(* contacts.py: save_contacts_content.  headers and rows arrive as JSON     *)
(* values: a list of items, or a value that is no list.                    *)
(***************************************************************************)
JsonList(items) == [is_list |-> TRUE, items |-> items]

NotAList == [is_list |-> FALSE, items |-> <<>>]

\* cell_to_text(header).strip() or f"Column {idx + 1}" for every header.
CleanedHeaders(items) ==
    [idx \in 1..Len(items) |->
        LET header_text == Strip(cell_to_text(items[idx]))
        IN IF header_text /= "" THEN header_text ELSE "Column " \o IntToStr(idx)]

\* duplicates with a name counted as duplicate from its third use on.
duplicates_from_third_use(normalized_headers) ==
    {normalized_headers[i] : i \in {j \in 1..Len(normalized_headers) :
        Cardinality({k \in 1..Len(normalized_headers) :
                        normalized_headers[k] = normalized_headers[j]}) > 2}}

\* {value for value in normalized_headers if normalized_headers.count(value) > 1}
duplicates(normalized_headers) ==
    {normalized_headers[i] : i \in {j \in 1..Len(normalized_headers) :
        Cardinality({k \in 1..Len(normalized_headers) :
                        normalized_headers[k] = normalized_headers[j]}) > 1}}

InvalidContent(message) == AppError("INVALID_CONTACTS_CONTENT", message, 400, None)

\* The call's result and the stored file after it.  file is the stored file
\* at file_path; an Excel file is rewritten through load_workbook, which
\* fails on a file the library cannot read; a CSV file holds the text
\* csv.writer wrote, and its rows are those csv.reader yields for that text.
save_contacts_content(file, headers, rows) ==
    LET Failed(error) == [result |-> Raise(error), file |-> file, written |-> FALSE]
        cleaned_headers == CleanedHeaders(headers.items)
        normalized_headers == [i \in 1..Len(cleaned_headers) |-> Upper(cleaned_headers[i])]
        numbers_columns == {i \in 1..Len(normalized_headers) :
                               normalized_headers[i] = "NUMBERS"}
        numbers_col_idx == CHOOSE i \in numbers_columns : TRUE
        final_headers == [i \in 1..Len(cleaned_headers) |->
                             IF i = numbers_col_idx THEN "NUMBERS" ELSE cleaned_headers[i]]
        values == [r \in 1..Len(rows.items) |->
                      RowValues(rows.items[r].items, Len(cleaned_headers))]
        cleaned_rows == SelectSeq(values, HasContent)
    IN IF ~headers.is_list THEN Failed(InvalidContent("Headers must be a list."))
       ELSE IF ~rows.is_list THEN Failed(InvalidContent("Rows must be a list."))
       ELSE IF cleaned_headers = <<>>
       THEN Failed(InvalidContent("Contacts file must have at least one column."))
       ELSE IF Cardinality(numbers_columns) /= 1
       THEN Failed(AppError("EXCEL_MISSING_NUMBERS",
                     "Contacts file must contain exactly one \"NUMBERS\" column.",
                     400, None))
       ELSE IF duplicates(normalized_headers) /= {}
       THEN Failed(InvalidContent("Column names must be unique. Duplicate: "
                     \o Join(", ", Sorted(duplicates(normalized_headers))) \o "."))
       ELSE IF \E r \in 1..Len(rows.items) : ~rows.items[r].is_list
       THEN Failed(InvalidContent("Each row must be a list of values."))
       ELSE IF SuffixLower(file.filename) /= ".csv" /\ ~file.readable
       THEN Failed(AppError("CONTACTS_CONTENT_SAVE_FAILED",
                     "Could not save contacts file content.", 500, "unreadable"))
       ELSE IF SuffixLower(file.filename) = ".csv"
       THEN LET stored == csv_reader(csv_writer(<<final_headers>> \o cleaned_rows))
            IN [result |-> Return([columns |-> Len(cleaned_headers),
                                   rows |-> Len(cleaned_rows)]),
                file |-> [filename |-> file.filename, empty |-> FALSE,
                          readable |-> stored.ok, raw_rows |-> stored.rows],
                written |-> TRUE]
       ELSE [result |-> Return([columns |-> Len(cleaned_headers),
                                rows |-> Len(cleaned_rows)]),
             file |-> [filename |-> file.filename, empty |-> FALSE, readable |-> TRUE,
                       raw_rows |-> <<final_headers>> \o cleaned_rows],
             written |-> TRUE]

(***************************************************************************)
(* node_api.py: the Delivery Client.  What the backend does with one       *)
(* request is an outcome: a transport failure, an unparsable body, or a    *)
(* response with a status and a JSON body (an object with ok and error, or *)
(* some other JSON value).                                                 *)
(***************************************************************************)
_safe_http_status(status_code) ==
    IF 400 <= status_code /\ status_code <= 599 THEN status_code ELSE 502

\* map_node_error with the delivery failure tested before the timeout.
map_node_error_ack_before_timeout(status_code, raw_error) ==
    LET details == IF Truthy(raw_error) THEN raw_error ELSE ""
        lowered == Lower(details)
        safe_status == _safe_http_status(status_code)
    IN IF Contains(lowered, "wpp is not defined")
       THEN AppError("WHATSAPP_WPP_MISSING",
              "WhatsApp Web did not finish initializing (\"WPP is not defined\"). Wait 5-10 seconds and retry. If it repeats, click Logout or restart python main.py.",
              503, details)
       ELSE IF Contains(lowered, "browser is already running")
               \/ Contains(lowered, "userdatadir")
               \/ Contains(lowered, "singletonlock")
       THEN AppError("BROWSER_PROFILE_LOCKED",
              "WhatsApp browser profile is locked by another running browser process. Close Chrome/Edge processes using this session, then try Send again.",
              409, details)
       ELSE IF Contains(lowered, "spawn eperm") \/ Contains(lowered, "error no open browser")
       THEN AppError("WHATSAPP_BROWSER_LAUNCH_FAILED",
              "WhatsApp browser could not start due to a local permission/system restriction. Restart the app, allow Node/Chrome in antivirus, and try again.",
              503, details)
       ELSE IF Contains(lowered, "not ready") \/ safe_status = 503
       THEN AppError("WHATSAPP_NOT_READY",
              "WhatsApp is not ready yet. Keep the QR window open, scan it with your phone, and wait for \"Login confirmed\" before sending.",
              503, details)
       ELSE IF Contains(lowered, "ack failed")
       THEN AppError("DELIVERY_FAILED",
              "WhatsApp did not confirm delivery for this number. Verify the number format and that the target has WhatsApp, then try again.",
              502, details)
       ELSE IF Contains(lowered, "timed out")
       THEN AppError("DELIVERY_TIMEOUT",
              "Delivery timed out while waiting for WhatsApp acknowledgment. Check internet stability, wait a few seconds, then retry.",
              504, details)
       ELSE IF safe_status = 413 \/ Contains(lowered, "too large")
       THEN AppError("MEDIA_TOO_LARGE",
              "Selected media is too large for WhatsApp delivery in this request. Compress the media or choose a smaller file.",
              413, details)
       ELSE IF Contains(lowered, "missing \"to\" or \"message\"") \/ safe_status = 400
       THEN AppError("NODE_API_BAD_REQUEST",
              "WhatsApp service rejected the request data. Check phone number format, message text, and media fields, then retry.",
              400, details)
       ELSE IF safe_status = 401
       THEN AppError("NODE_API_UNAUTHORIZED",
              "WhatsApp session is not authorized. Start login again and scan a fresh QR code.",
              401, details)
       ELSE IF safe_status = 403
       THEN AppError("NODE_API_FORBIDDEN",
              "WhatsApp service denied this operation. Re-login and try again.",
              403, details)
       ELSE IF safe_status = 404
       THEN AppError("NODE_API_ROUTE_NOT_FOUND",
              "Internal WhatsApp API route was not found. Restart python main.py to reload matching Flask/Node versions.",
              404, details)
       ELSE IF safe_status = 409
       THEN AppError("NODE_API_CONFLICT",
              "WhatsApp session is in a conflicting state. Wait a few seconds and retry. If it repeats, restart the app.",
              409, details)
       ELSE IF safe_status = 429
       THEN AppError("NODE_API_RATE_LIMIT",
              "Too many requests were sent to WhatsApp too quickly. Wait 30-60 seconds, then try again.",
              429, details)
       ELSE IF 500 <= safe_status /\ safe_status <= 599
       THEN AppError("NODE_API_SERVER_ERROR",
              "WhatsApp service had an internal failure. Retry once; if it repeats, restart python main.py.",
              safe_status, details)
       ELSE AppError("WHATSAPP_API_ERROR",
              "WhatsApp service returned an unexpected error. Retry once; if it continues, restart python main.py.",
              safe_status, details)

\* Lines 13-187: the first rule that matches decides.
map_node_error(status_code, raw_error) ==
    LET details == IF Truthy(raw_error) THEN raw_error ELSE ""
        lowered == Lower(details)
        safe_status == _safe_http_status(status_code)
    IN IF Contains(lowered, "wpp is not defined")
       THEN AppError("WHATSAPP_WPP_MISSING",
              "WhatsApp Web did not finish initializing (\"WPP is not defined\"). Wait 5-10 seconds and retry. If it repeats, click Logout or restart python main.py.",
              503, details)
       ELSE IF Contains(lowered, "browser is already running")
               \/ Contains(lowered, "userdatadir")
               \/ Contains(lowered, "singletonlock")
       THEN AppError("BROWSER_PROFILE_LOCKED",
              "WhatsApp browser profile is locked by another running browser process. Close Chrome/Edge processes using this session, then try Send again.",
              409, details)
       ELSE IF Contains(lowered, "spawn eperm") \/ Contains(lowered, "error no open browser")
       THEN AppError("WHATSAPP_BROWSER_LAUNCH_FAILED",
              "WhatsApp browser could not start due to a local permission/system restriction. Restart the app, allow Node/Chrome in antivirus, and try again.",
              503, details)
       ELSE IF Contains(lowered, "not ready") \/ safe_status = 503
       THEN AppError("WHATSAPP_NOT_READY",
              "WhatsApp is not ready yet. Keep the QR window open, scan it with your phone, and wait for \"Login confirmed\" before sending.",
              503, details)
       ELSE IF Contains(lowered, "timed out")
       THEN AppError("DELIVERY_TIMEOUT",
              "Delivery timed out while waiting for WhatsApp acknowledgment. Check internet stability, wait a few seconds, then retry.",
              504, details)
       ELSE IF Contains(lowered, "ack failed")
       THEN AppError("DELIVERY_FAILED",
              "WhatsApp did not confirm delivery for this number. Verify the number format and that the target has WhatsApp, then try again.",
              502, details)
       ELSE IF safe_status = 413 \/ Contains(lowered, "too large")
       THEN AppError("MEDIA_TOO_LARGE",
              "Selected media is too large for WhatsApp delivery in this request. Compress the media or choose a smaller file.",
              413, details)
       ELSE IF Contains(lowered, "missing \"to\" or \"message\"") \/ safe_status = 400
       THEN AppError("NODE_API_BAD_REQUEST",
              "WhatsApp service rejected the request data. Check phone number format, message text, and media fields, then retry.",
              400, details)
       ELSE IF safe_status = 401
       THEN AppError("NODE_API_UNAUTHORIZED",
              "WhatsApp session is not authorized. Start login again and scan a fresh QR code.",
              401, details)
       ELSE IF safe_status = 403
       THEN AppError("NODE_API_FORBIDDEN",
              "WhatsApp service denied this operation. Re-login and try again.",
              403, details)
       ELSE IF safe_status = 404
       THEN AppError("NODE_API_ROUTE_NOT_FOUND",
              "Internal WhatsApp API route was not found. Restart python main.py to reload matching Flask/Node versions.",
              404, details)
       ELSE IF safe_status = 409
       THEN AppError("NODE_API_CONFLICT",
              "WhatsApp session is in a conflicting state. Wait a few seconds and retry. If it repeats, restart the app.",
              409, details)
       ELSE IF safe_status = 429
       THEN AppError("NODE_API_RATE_LIMIT",
              "Too many requests were sent to WhatsApp too quickly. Wait 30-60 seconds, then try again.",
              429, details)
       ELSE IF 500 <= safe_status /\ safe_status <= 599
       THEN AppError("NODE_API_SERVER_ERROR",
              "WhatsApp service had an internal failure. Retry once; if it repeats, restart python main.py.",
              safe_status, details)
       ELSE AppError("WHATSAPP_API_ERROR",
              "WhatsApp service returned an unexpected error. Retry once; if it continues, restart python main.py.",
              safe_status, details)

\* Outcomes of one request to the backend; ok is bool(data.get("ok")).
TransportFailure(kind) ==
    [kind |-> kind, status |-> 0, is_object |-> FALSE, ok |-> FALSE, error |-> None]

Response(status, is_object, ok, error) ==
    [kind |-> "response", status |-> status, is_object |-> is_object,
     ok |-> ok, error |-> error]

\* data.get(key): an AttributeError unless the JSON body is an object.
NotAnObject == AttributeError("'list' object has no attribute 'get'")

\* requests' response.ok: the status is no 4xx or 5xx code.
ResponseOk(outcome) == ~(400 <= outcome.status /\ outcome.status <= 599)

call_api(outcome) ==
    IF outcome.kind = "timeout"
    THEN Raise(AppError("NODE_API_TIMEOUT",
           "WhatsApp service is taking too long to respond. Check your connection and try again.",
           504, "timeout"))
    ELSE IF outcome.kind = "connection"
    THEN Raise(AppError("NODE_API_UNREACHABLE",
           "Cannot connect to WhatsApp service. Wait a few seconds and try again.",
           503, "connection refused"))
    ELSE IF outcome.kind = "request"
    THEN Raise(AppError("NODE_API_REQUEST_ERROR",
           "Network error while contacting WhatsApp service.", 502, "request failed"))
    ELSE IF outcome.kind = "bad_json"
    THEN Raise(AppError("NODE_API_BAD_RESPONSE",
           "WhatsApp service returned an unexpected response.", 502, "not JSON"))
    ELSE IF ~ResponseOk(outcome)
    THEN Raise(map_node_error(outcome.status,
                              IF outcome.is_object THEN outcome.error ELSE None))
    ELSE Return(outcome)

post_json(outcome) ==
    LET data == call_api(outcome)
    IN IF data.raised THEN data
       ELSE IF ~data.value.is_object THEN Raise(NotAnObject)
       ELSE IF ~data.value.ok
            THEN Raise(map_node_error(502, data.value.error))
       ELSE data

\* Each client method: the request it issues and what the call returns or
\* raises under the backend's outcome.
\* send_text with the payload's keepSession left at its default.
send_text_default_session(to, message, keep_session, outcome) ==
    LET posted == post_json(outcome)
    IN [request |-> [endpoint |-> "/send-text",
                     payload |-> [to |-> to, message |-> message,
                                  keepSession |-> FALSE],
                     timeout |-> 10],
        result |-> IF posted.raised THEN posted ELSE Return(None)]

send_text(to, message, keep_session, outcome) ==
    LET posted == post_json(outcome)
    IN [request |-> [endpoint |-> "/send-text",
                     payload |-> [to |-> to, message |-> message,
                                  keepSession |-> keep_session],
                     timeout |-> 10],
        result |-> IF posted.raised THEN posted ELSE Return(None)]

send_media(to, filename, caption, data_url, keep_session, outcome) ==
    LET posted == post_json(outcome)
    IN [request |-> [endpoint |-> "/send-media",
                     payload |-> [to |-> to, filename |-> filename,
                                  caption |-> caption, base64 |-> data_url,
                                  keepSession |-> keep_session],
                     timeout |-> 120],
        result |-> IF posted.raised THEN posted ELSE Return(None)]

logout_session(outcome) ==
    LET data == call_api(outcome)
    IN [request |-> [endpoint |-> "/session/logout", payload |-> <<>>, timeout |-> 20],
        result |-> IF data.raised THEN data
                   ELSE IF ~data.value.is_object THEN Raise(NotAnObject)
                   ELSE IF ~data.value.ok
                        THEN Raise(AppError("LOGOUT_FAILED",
                               "Failed to close WhatsApp session after sending.", 502,
                               data.value.error))
                   ELSE Return(None)]

(***************************************************************************)
(* messaging.py: upload_to_data_url.  A media upload is its filename, its  *)
(* MIME type and whether its bytes are empty.                              *)
(***************************************************************************)
upload_to_data_url(uploaded_file) ==
    IF uploaded_file.empty THEN Raise(ValueError("Selected media file is empty."))
    ELSE Return("data:" \o uploaded_file.mimetype \o ";base64," \o uploaded_file.b64)

(***************************************************************************)
(* errors.py: responses.                                                   *)
(***************************************************************************)
json_error(code, message, status, details) ==
    [ok |-> FALSE, error_code |-> code, error |-> message, status |-> status,
     details |-> IF Truthy(details) THEN details ELSE None, message |-> None]

handle_api_exception(exc) ==
    IF exc.type = "AppError"
    THEN json_error(exc.code, exc.message, exc.status, exc.details)
    ELSE json_error("UNEXPECTED_SERVER_ERROR",
                    "Unexpected server error. Please try again.", 500, exc.message)

NoResponse ==
    [ok |-> FALSE, error_code |-> None, error |-> None, status |-> 0,
     details |-> None, message |-> None]

\* jsonify({"ok": True, "message": message})
json_ok(message) ==
    [ok |-> TRUE, error_code |-> None, error |-> None, status |-> 200,
     details |-> None, message |-> message]

(***************************************************************************)
(* routes.py: the /api/send handler.                                       *)
(*                                                                         *)
(* request   the submitted form: phone, message, media upload (or None),   *)
(*           contacts source ("none", "upload", "existing") and file       *)
(* pc        Idle, Reading, PerRowSend, LoggingOut, Single, Done, Failed   *)
(* rows      the Contact Rows parse_contacts_rows returned                 *)
(* index     number of rows of the batch already sent                      *)
(* raised    the exception pending in the batch's try block, or NoError    *)
(* log       what the handler did so far, in order: normalize, render,     *)
(*           send, sleep and logout events                                 *)
(* response  the JSON response, NoResponse while the handler runs          *)
(* uploads   the stored contacts files, in upload order                    *)
(*                                                                         *)
(* Where handlers run concurrently (ServerSpec, MetadataSpec) request, pc, *)
(* rows, index, raised and response hold one value per handler thread, and *)
(* the metadata of the stored files is kept apart from the files:          *)
(* CONTACTS_METADATA_FILE  the dict stored in metadata.json                *)
(* locals    per thread, the local variables of the function it runs       *)
(* A handler that runs alone keeps the display name with the stored file.  *)
(***************************************************************************)
VARIABLES request, pc, rows, index, raised, log, response, uploads,
          CONTACTS_METADATA_FILE, locals

vars == <<request, pc, rows, index, raised, log, response, uploads,
          CONTACTS_METADATA_FILE, locals>>

\* bool(uploaded_file and uploaded_file.filename); no upload has no filename.
has_media == request.media.filename /= ""

has_message == request.message /= ""

has_contacts_file == request.source = "upload" /\ request.file.filename /= ""

has_existing_contacts_file == request.source = "existing"

\* The except clauses that close api_send.
ApiSendError(exc) ==
    IF exc.type = "ValueError"
    THEN json_error("VALIDATION_ERROR", exc.message, 400, None)
    ELSE handle_api_exception(exc)

\* Name under which save_contacts_upload stores the n-th upload.
StoredName(n, filename) == IntToStr(n) \o "_" \o filename

\* resolve_saved_contacts_path followed by read_bytes.
ResolveExisting(file_name) ==
    IF ~is_valid_contacts_filename(file_name)
    THEN Raise(AppError("INVALID_CONTACT_REFERENCE",
                        "Invalid contacts file reference.", 400, None))
    ELSE IF \A i \in 1..Len(uploads) : uploads[i].name /= file_name
    THEN Raise(AppError("CONTACT_FILE_NOT_FOUND",
                        "Selected contacts file was not found.", 404, None))
    ELSE Return(uploads[CHOOSE i \in 1..Len(uploads) : uploads[i].name = file_name].file)

Fail(exc) ==
    /\ pc' = "Failed"
    /\ response' = ApiSendError(exc)

\* Lines 297-321: the form is read and checked for a target and a content.
Receive ==
    /\ pc = "Idle"
    /\ IF ~has_contacts_file /\ ~has_existing_contacts_file /\ request.phone = ""
       THEN Fail(AppError("MISSING_TARGET",
              "Enter a phone number, upload a contacts file, or select an existing contacts file.",
              400, None))
       ELSE IF ~has_message /\ ~has_media
       THEN Fail(AppError("MISSING_CONTENT",
              "Write a message or choose a media file.", 400, None))
       ELSE /\ pc' = IF has_contacts_file \/ has_existing_contacts_file
                     THEN "Reading" ELSE "Single"
            /\ UNCHANGED response
    /\ UNCHANGED <<request, rows, index, raised, log, uploads>>
    /\ UNCHANGED <<CONTACTS_METADATA_FILE, locals>>

\* ReadContacts with the parse inside the batch's try block: a parse
\* failure is followed by the logout.
ReadContacts_logout_on_parse_failure ==
    /\ pc = "Reading"
    /\ LET existing == ResolveExisting(request.existing)
           file == IF has_contacts_file THEN request.file ELSE existing.value
           stored == Append(uploads,
                        [name |-> StoredName(Len(uploads) + 1, request.file.filename),
                         file |-> request.file,
                         display_name |-> request.file.filename])
           parsed == parse_contacts_rows(file)
           media_data_url == IF has_media THEN upload_to_data_url(request.media)
                             ELSE Return("")
       IN IF has_contacts_file /\ ~is_valid_contacts_filename(request.file.filename)
          THEN /\ Fail(AppError("INVALID_CONTACTS_FILE",
                         "Upload a valid contacts file (.xlsx or .csv).", 400, None))
               /\ UNCHANGED <<rows, uploads, raised>>
          ELSE IF has_contacts_file /\ request.file.empty
          THEN /\ Fail(AppError("EXCEL_EMPTY", "Contacts file is empty.", 400, None))
               /\ UNCHANGED <<rows, uploads, raised>>
          ELSE IF ~has_contacts_file /\ existing.raised
          THEN /\ Fail(existing.error)
               /\ UNCHANGED <<rows, uploads, raised>>
          ELSE IF ~has_contacts_file /\ file.empty
          THEN /\ Fail(AppError("EXCEL_EMPTY", "Contacts file is empty.", 400, None))
               /\ UNCHANGED <<rows, uploads, raised>>
          ELSE /\ uploads' = IF has_contacts_file THEN stored ELSE uploads
               /\ IF parsed.raised
                  THEN /\ pc' = "LoggingOut"
                       /\ raised' = parsed.error
                       /\ UNCHANGED <<rows, response>>
                  ELSE IF media_data_url.raised
                  THEN Fail(media_data_url.error) /\ UNCHANGED <<rows, raised>>
                  ELSE /\ rows' = parsed.value
                       /\ pc' = "PerRowSend"
                       /\ UNCHANGED <<response, raised>>
    /\ UNCHANGED <<request, index, log>>
    /\ UNCHANGED <<CONTACTS_METADATA_FILE, locals>>

\* Lines 323-374: the contacts bytes are obtained (an upload is stored
\* first), parsed into Contact Rows, and the media is encoded.
ReadContacts ==
    /\ pc = "Reading"
    /\ LET existing == ResolveExisting(request.existing)
           file == IF has_contacts_file THEN request.file ELSE existing.value
           stored == Append(uploads,
                        [name |-> StoredName(Len(uploads) + 1, request.file.filename),
                         file |-> request.file,
                         display_name |-> request.file.filename])
           parsed == parse_contacts_rows(file)
           media_data_url == IF has_media THEN upload_to_data_url(request.media)
                             ELSE Return("")
       IN IF has_contacts_file /\ ~is_valid_contacts_filename(request.file.filename)
          THEN /\ Fail(AppError("INVALID_CONTACTS_FILE",
                         "Upload a valid contacts file (.xlsx or .csv).", 400, None))
               /\ UNCHANGED <<rows, uploads>>
          ELSE IF has_contacts_file /\ request.file.empty
          THEN /\ Fail(AppError("EXCEL_EMPTY", "Contacts file is empty.", 400, None))
               /\ UNCHANGED <<rows, uploads>>
          ELSE IF ~has_contacts_file /\ existing.raised
          THEN /\ Fail(existing.error)
               /\ UNCHANGED <<rows, uploads>>
          ELSE IF ~has_contacts_file /\ file.empty
          THEN /\ Fail(AppError("EXCEL_EMPTY", "Contacts file is empty.", 400, None))
               /\ UNCHANGED <<rows, uploads>>
          ELSE /\ uploads' = IF has_contacts_file THEN stored ELSE uploads
               /\ IF parsed.raised
                  THEN Fail(parsed.error) /\ UNCHANGED rows
                  ELSE IF media_data_url.raised
                  THEN Fail(media_data_url.error) /\ UNCHANGED rows
                  ELSE /\ rows' = parsed.value
                       /\ pc' = "PerRowSend"
                       /\ UNCHANGED response
    /\ UNCHANGED <<request, index, raised, log>>
    /\ UNCHANGED <<CONTACTS_METADATA_FILE, locals>>

\* PacingSleep without the test for the last row.
PacingSleep_after_every_row(idx) ==
    IF request.delay_ms > 0 THEN <<[op |-> "sleep", row |-> idx + 1]>> ELSE <<>>

\* Lines 401-402: the pacing sleep that follows the send of row idx + 1,
\* under the interval configured for the process that handles the request.
PacingSleep(idx) ==
    IF idx < Len(rows) - 1 /\ request.delay_ms > 0
    THEN <<[op |-> "sleep", row |-> idx + 1]>> ELSE <<>>

\* RowIteration that sends the media only with a caption: a blank rendered
\* message takes the text path.
RowIteration_media_needs_caption(idx, row, outcome) ==
    LET k == idx + 1
        row_number == DictGet(row, "NUMBERS", "")
        normalized == [op |-> "normalize", row |-> k, input |-> row_number]
        did_render == [op |-> "render", row |-> k]
        keep_session == TRUE
        slept == PacingSleep(idx)
        \* After the send call returned or raised.
        Sent(call) ==
            IF call.result.raised
            THEN [events |-> <<normalized, did_render,
                               [op |-> "send", row |-> k, request |-> call.request,
                                ok |-> FALSE]>>,
                  error |-> call.result.error]
            ELSE [events |-> <<normalized, did_render,
                               [op |-> "send", row |-> k, request |-> call.request,
                                ok |-> TRUE]>> \o slept,
                  error |-> NoError]
        \* Lines 383-399, with the identifier and the rendered message.
        Send(to, rendered_message) ==
            IF has_media /\ rendered_message /= ""
            THEN Sent(send_media(to, request.media.filename, rendered_message,
                                 upload_to_data_url(request.media).value,
                                 keep_session, outcome))
            ELSE IF rendered_message = ""
            THEN [events |-> <<normalized, did_render>>,
                  error |-> AppError("EMPTY_ROW_MESSAGE",
                              "Message is empty for one or more rows after variable replacement.",
                              400, "Row " \o DictGet(row, "__row_index", "?"))]
            ELSE Sent(send_text(to, rendered_message, keep_session, outcome))
        \* Line 380, with what render_message_template returned or raised.
        Rendered(to, rendered) ==
            IF rendered.raised
            THEN [events |-> <<normalized, did_render>>, error |-> rendered.error]
            ELSE Send(to, Strip(rendered.value))
        \* Line 379, with what normalize_to_whatsapp_id returned or raised.
        Normalized(to) ==
            IF to.raised
            THEN [events |-> <<normalized>>, error |-> to.error]
            ELSE Rendered(to.value, render_message_template(request.message, row))
    IN Normalized(normalize_to_whatsapp_id(row_number))

\* Lines 378-402: one iteration of the loop over enumerate(rows), under the
\* backend's outcome for the send it may issue: the events of the iteration
\* and the exception that ended it (NoError when it completed).
RowIteration(idx, row, outcome) ==
    LET k == idx + 1
        row_number == DictGet(row, "NUMBERS", "")
        normalized == [op |-> "normalize", row |-> k, input |-> row_number]
        did_render == [op |-> "render", row |-> k]
        keep_session == TRUE
        slept == PacingSleep(idx)
        \* After the send call returned or raised.
        Sent(call) ==
            IF call.result.raised
            THEN [events |-> <<normalized, did_render,
                               [op |-> "send", row |-> k, request |-> call.request,
                                ok |-> FALSE]>>,
                  error |-> call.result.error]
            ELSE [events |-> <<normalized, did_render,
                               [op |-> "send", row |-> k, request |-> call.request,
                                ok |-> TRUE]>> \o slept,
                  error |-> NoError]
        \* Lines 383-399, with the identifier and the rendered message.
        Send(to, rendered_message) ==
            IF has_media
            THEN Sent(send_media(to, request.media.filename, rendered_message,
                                 upload_to_data_url(request.media).value,
                                 keep_session, outcome))
            ELSE IF rendered_message = ""
            THEN [events |-> <<normalized, did_render>>,
                  error |-> AppError("EMPTY_ROW_MESSAGE",
                              "Message is empty for one or more rows after variable replacement.",
                              400, "Row " \o DictGet(row, "__row_index", "?"))]
            ELSE Sent(send_text(to, rendered_message, keep_session, outcome))
        \* Line 380, with what render_message_template returned or raised.
        Rendered(to, rendered) ==
            IF rendered.raised
            THEN [events |-> <<normalized, did_render>>, error |-> rendered.error]
            ELSE Send(to, Strip(rendered.value))
        \* Line 379, with what normalize_to_whatsapp_id returned or raised.
        Normalized(to) ==
            IF to.raised
            THEN [events |-> <<normalized>>, error |-> to.error]
            ELSE Rendered(to.value, render_message_template(request.message, row))
    IN Normalized(normalize_to_whatsapp_id(row_number))

\* Outcomes the backend of this model produces for a send and for a logout.
Delivered == Response(200, TRUE, TRUE, None)

SendOutcomes ==
    {Delivered,
     TransportFailure("timeout"),
     Response(200, TRUE, FALSE, "ACK failed for message"),
     Response(500, TRUE, FALSE, None),
     Response(200, FALSE, FALSE, None)}

LogoutOutcomes ==
    {Delivered,
     TransportFailure("connection"),
     Response(200, TRUE, FALSE, "no session"),
     Response(200, FALSE, FALSE, None)}

\* SendRow with a failed row skipped instead of ending the loop.
SendRow_continue_after_failure ==
    /\ pc = "PerRowSend"
    /\ index < Len(rows)
    /\ \E outcome \in SendOutcomes :
       \E step \in {RowIteration(index, rows[index + 1], outcome)} :
            /\ log' = log \o step.events
            /\ raised' = IF step.error = NoError THEN raised ELSE step.error
            /\ index' = index + 1
            /\ pc' = IF index + 1 = Len(rows) THEN "LoggingOut" ELSE "PerRowSend"
    /\ UNCHANGED <<request, rows, response, uploads>>
    /\ UNCHANGED <<CONTACTS_METADATA_FILE, locals>>

\* SendRow with a failed row answered at once, without the logout.
SendRow_fails_without_logout ==
    /\ pc = "PerRowSend"
    /\ index < Len(rows)
    /\ \E outcome \in SendOutcomes :
       \E step \in {RowIteration(index, rows[index + 1], outcome)} :
            /\ log' = log \o step.events
            /\ raised' = step.error
            /\ IF step.error = NoError
               THEN /\ index' = index + 1
                    /\ pc' = IF index + 1 = Len(rows) THEN "LoggingOut" ELSE "PerRowSend"
                    /\ UNCHANGED response
               ELSE /\ index' = index
                    /\ Fail(IF step.error.type = "AppError" THEN step.error
                            ELSE AppError("BATCH_ROW_FAILED",
                                   "Failed while sending one of the contacts rows.",
                                   502, step.error.message))
    /\ UNCHANGED <<request, rows, uploads>>
    /\ UNCHANGED <<CONTACTS_METADATA_FILE, locals>>

\* Lines 376-402: the next row of the batch is processed.
SendRow ==
    /\ pc = "PerRowSend"
    /\ index < Len(rows)
    /\ \E outcome \in SendOutcomes :
       \E step \in {RowIteration(index, rows[index + 1], outcome)} :
            /\ log' = log \o step.events
            /\ raised' = step.error
            /\ IF step.error = NoError
               THEN /\ index' = index + 1
                    /\ pc' = IF index + 1 = Len(rows) THEN "LoggingOut" ELSE "PerRowSend"
               ELSE /\ index' = index
                    /\ pc' = "LoggingOut"
    /\ UNCHANGED <<request, rows, response, uploads>>
    /\ UNCHANGED <<CONTACTS_METADATA_FILE, locals>>

\* Lines 403-419: what the batch's except clauses re-raise.
Reraised(exc) ==
    IF exc.type = "AppError" THEN exc
    ELSE AppError("BATCH_ROW_FAILED",
                  "Failed while sending one of the contacts rows.", 502, exc.message)

\* Lines 427-435: the result message of a completed batch.
BatchResultMessage(row_count, logout_warning) ==
    IF Truthy(logout_warning)
    THEN "Batch sent successfully to " \o IntToStr(row_count)
           \o " row(s), but automatic logout failed. Restart the app before the next batch."
    ELSE "Batch sent successfully to " \o IntToStr(row_count)
           \o " row(s). You are logged out; a new QR code will be required next send."

\* Logout with a logout failure after a completed batch raised to the caller.
Logout_failure_raised ==
    /\ pc = "LoggingOut"
    /\ \E outcome \in LogoutOutcomes :
         LET call == logout_session(outcome)
         IN /\ log' = Append(log, [op |-> "logout", row |-> 0, request |-> call.request,
                                   ok |-> ~call.result.raised])
            /\ IF raised /= NoError
               THEN Fail(Reraised(raised))
               ELSE IF call.result.raised
               THEN Fail(call.result.error)
               ELSE /\ pc' = "Done"
                    /\ response' = json_ok(BatchResultMessage(Len(rows), None))
    /\ UNCHANGED <<request, rows, index, raised, uploads>>
    /\ UNCHANGED <<CONTACTS_METADATA_FILE, locals>>

\* Logout with no logout call in the clause that catches built-in exceptions.
Logout_skipped_for_builtin_exceptions ==
    /\ pc = "LoggingOut"
    /\ \E outcome \in LogoutOutcomes :
         LET call == logout_session(outcome)
             logout_warning == IF call.result.raised THEN call.result.error.message
                               ELSE None
         IN IF raised /= NoError /\ raised.type /= "AppError"
            THEN /\ log' = log
                 /\ Fail(Reraised(raised))
            ELSE /\ log' = Append(log, [op |-> "logout", row |-> 0,
                                        request |-> call.request,
                                        ok |-> ~call.result.raised])
                 /\ IF raised /= NoError
                    THEN Fail(Reraised(raised))
                    ELSE /\ pc' = "Done"
                         /\ response' = json_ok(BatchResultMessage(Len(rows), logout_warning))
    /\ UNCHANGED <<request, rows, index, raised, uploads>>
    /\ UNCHANGED <<CONTACTS_METADATA_FILE, locals>>

\* Lines 403-425: logout_session is called, in the except clause that
\* caught the row's failure or after the loop completed.
Logout ==
    /\ pc = "LoggingOut"
    /\ \E outcome \in LogoutOutcomes :
         LET call == logout_session(outcome)
             logout_warning == IF call.result.raised THEN call.result.error.message
                               ELSE None
         IN /\ log' = Append(log, [op |-> "logout", row |-> 0, request |-> call.request,
                                   ok |-> ~call.result.raised])
            /\ IF raised /= NoError
               THEN Fail(Reraised(raised))
               ELSE /\ pc' = "Done"
                    /\ response' = json_ok(BatchResultMessage(Len(rows), logout_warning))
    /\ UNCHANGED <<request, rows, index, raised, uploads>>
    /\ UNCHANGED <<CONTACTS_METADATA_FILE, locals>>

\* Single with the batch's keep_session = True.
Single_keeps_session ==
    /\ pc = "Single"
    /\ \E outcome \in SendOutcomes :
         LET to == normalize_to_whatsapp_id(request.phone)
             normalized == [op |-> "normalize", row |-> 0, input |-> request.phone]
             data_url == upload_to_data_url(request.media)
             call == IF has_media
                     THEN send_media(to.value, request.media.filename, request.message,
                                     data_url.value, TRUE, outcome)
                     ELSE send_text(to.value, request.message, TRUE, outcome)
             sent == [op |-> "send", row |-> 0, request |-> call.request,
                      ok |-> ~call.result.raised]
         IN IF to.raised
            THEN /\ log' = Append(log, normalized)
                 /\ Fail(to.error)
            ELSE IF has_media /\ data_url.raised
            THEN /\ log' = Append(log, normalized)
                 /\ Fail(data_url.error)
            ELSE /\ log' = log \o <<normalized, sent>>
                 /\ IF call.result.raised
                    THEN Fail(call.result.error)
                    ELSE /\ pc' = "Done"
                         /\ response' = json_ok(
                              (IF has_media THEN "Media sent to " ELSE "Text sent to ")
                              \o to.value
                              \o ". You are logged out; a new QR code will be required next send.")
    /\ UNCHANGED <<request, rows, index, raised, uploads>>
    /\ UNCHANGED <<CONTACTS_METADATA_FILE, locals>>

\* Lines 444-468: a single-target send.
Single ==
    /\ pc = "Single"
    /\ \E outcome \in SendOutcomes :
         LET to == normalize_to_whatsapp_id(request.phone)
             normalized == [op |-> "normalize", row |-> 0, input |-> request.phone]
             data_url == upload_to_data_url(request.media)
             call == IF has_media
                     THEN send_media(to.value, request.media.filename, request.message,
                                     data_url.value, FALSE, outcome)
                     ELSE send_text(to.value, request.message, FALSE, outcome)
             sent == [op |-> "send", row |-> 0, request |-> call.request,
                      ok |-> ~call.result.raised]
         IN IF to.raised
            THEN /\ log' = Append(log, normalized)
                 /\ Fail(to.error)
            ELSE IF has_media /\ data_url.raised
            THEN /\ log' = Append(log, normalized)
                 /\ Fail(data_url.error)
            ELSE /\ log' = log \o <<normalized, sent>>
                 /\ IF call.result.raised
                    THEN Fail(call.result.error)
                    ELSE /\ pc' = "Done"
                         /\ response' = json_ok(
                              (IF has_media THEN "Media sent to " ELSE "Text sent to ")
                              \o to.value
                              \o ". You are logged out; a new QR code will be required next send.")
    /\ UNCHANGED <<request, rows, index, raised, uploads>>
    /\ UNCHANGED <<CONTACTS_METADATA_FILE, locals>>

(***************************************************************************)
(* The requests and contacts files of the model.                           *)
(***************************************************************************)
NoMedia == [filename |-> "", mimetype |-> "", empty |-> TRUE, b64 |-> ""]

Photo == [filename |-> "photo.png", mimetype |-> "image/png", empty |-> FALSE, b64 |-> "aGk="]

EmptyPhoto == [filename |-> "blank.png", mimetype |-> "image/png", empty |-> TRUE, b64 |-> ""]

\* Header rows: NUMBERS first; two NUMBERS columns; no NUMBERS column (and
\* a blank header); NUMBERS second.
HeaderRows ==
    {<<"NUMBERS", "Name">>, <<"Numbers", "numbers">>, <<"Name", "">>, <<"name", "numbers">>}

\* Data rows as csv.reader yields them.
DataRows ==
    {<<"81777444", "Ann">>, <<"Ann", "70123456">>, <<"81777444", "">>,
     <<"", "Bob">>, <<"", "">>}

\* All sequences over S of length at most n.
RECURSIVE SeqsUpTo(_, _)
SeqsUpTo(S, n) ==
    IF n = 0 THEN {<<>>}
    ELSE LET shorter == SeqsUpTo(S, n - 1)
         IN shorter \cup {Append(q, x) : q \in {p \in shorter : Len(p) = n - 1}, x \in S}

CsvFile(raw_rows) ==
    [filename |-> "contacts.csv", empty |-> FALSE, readable |-> TRUE, raw_rows |-> raw_rows]

ContactsFiles ==
    {CsvFile(<<h>> \o d) : h \in HeaderRows, d \in SeqsUpTo(DataRows, MaxRows)}
    \cup {CsvFile(<<>>),
          [filename |-> "contacts.csv", empty |-> TRUE, readable |-> TRUE, raw_rows |-> <<>>],
          [filename |-> "contacts.csv", empty |-> FALSE, readable |-> FALSE, raw_rows |-> <<>>],
          [filename |-> "contacts.txt", empty |-> FALSE, readable |-> TRUE,
           raw_rows |-> << <<"NUMBERS">>, <<"81777444">> >>],
          [filename |-> "Book.XLSX", empty |-> FALSE, readable |-> FALSE, raw_rows |-> <<>>],
          [filename |-> "Book.xlsx", empty |-> FALSE, readable |-> TRUE,
           raw_rows |-> << <<"Name", None, "numbers">>, <<"Ann", None, "81777444">>,
                           <<None, None, None>>, <<"Bob", None, "+96170123456">> >>]}

\* Message and media of a request.
Contents ==
    {<<"Hello", NoMedia>>, <<"{{ Name }}", NoMedia>>, <<"{{Age}} to {{name}}", NoMedia>>,
     <<"{{name}}", Photo>>, <<"", NoMedia>>, <<"Hello", EmptyPhoto>>}

Phones == {"81777444", "+961 81 777 444", "96181777444@c.us", "0", ""}

BatchRequests ==
    {[phone |-> "", message |-> c[1], media |-> c[2], source |-> "upload",
      file |-> f, existing |-> "", delay_ms |-> BATCH_SEND_DELAY_MS] :
        c \in Contents, f \in ContactsFiles}

\* BATCH_SEND_DELAY_SECONDS as the environment may set it, in milliseconds:
\* zero and a negative interval.
PacingOff == {0, -500}

\* Batches handled by a process whose pacing interval is not positive.
UnpacedRequests ==
    {[phone |-> "", message |-> "Hello", media |-> NoMedia, source |-> "upload",
      file |-> CsvFile(<< <<"NUMBERS", "Name">> >> \o d), existing |-> "",
      delay_ms |-> ms] :
        d \in SeqsUpTo({<<"81777444", "Ann">>}, MaxRows), ms \in PacingOff}

ExistingRequests ==
    {[phone |-> "70123456", message |-> "Hello", media |-> NoMedia, source |-> "existing",
      file |-> CsvFile(<< <<"NUMBERS", "Name">>, <<"81777444", "Ann">> >>),
      existing |-> e, delay_ms |-> BATCH_SEND_DELAY_MS] :
        e \in {"1_contacts.csv", "2_contacts.csv", "notes.txt"}}

SingleRequests ==
    {[phone |-> p, message |-> c[1], media |-> c[2], source |-> "none",
      file |-> CsvFile(<<>>), existing |-> "", delay_ms |-> BATCH_SEND_DELAY_MS] :
        p \in Phones, c \in Contents}

Requests == BatchRequests \cup UnpacedRequests \cup ExistingRequests \cup SingleRequests

Init ==
    /\ request \in Requests
    /\ pc = "Idle"
    /\ rows = <<>>
    /\ index = 0
    /\ raised = NoError
    /\ log = <<>>
    /\ response = NoResponse
    /\ uploads = IF request.source = "existing"
                 THEN <<[name |-> "1_contacts.csv", file |-> request.file,
                         display_name |-> "contacts.csv"]>>
                 ELSE <<>>
    /\ CONTACTS_METADATA_FILE = <<>>
    /\ locals = <<>>

Next == Receive \/ ReadContacts \/ SendRow \/ Logout \/ Single

Spec == Init /\ [][Next]_vars

(***************************************************************************)
(* Properties of the batch dispatcher and of single-target sends.          *)
(***************************************************************************)
IsBatch == request.source \in {"upload", "existing"}

IsSend(e) == e.op = "send"

IsLogout(e) == e.op = "logout"

IsNormalize(e) == e.op = "normalize"

Sends == SelectSeq(log, IsSend)

Logouts == SelectSeq(log, IsLogout)

Normalizations == SelectSeq(log, IsNormalize)

Finished == pc \in {"Done", "Failed"}

\* The batch got past Reading: parse_contacts_rows returned its rows.
EnteredPerRowSend == IsBatch /\ rows /= <<>>

\* C1: in a batch the send calls are a prefix of the Contact Rows in table
\* order, each row at most once: the i-th send is for row i and goes to
\* that row's identifier, every send before the last one succeeded, and
\* once a row has failed no further send is issued.
C1_SendsArePrefixOfRows ==
    /\ [](IsBatch =>
            /\ Len(Sends) <= Len(rows)
            /\ \A i \in 1..Len(Sends) :
                 /\ Sends[i].row = i
                 /\ Sends[i].request.payload.to
                      = normalize_to_whatsapp_id(DictGet(rows[i], "NUMBERS", "")).value
                 /\ (i < Len(Sends) => Sends[i].ok)
            /\ (raised = NoError => \A i \in 1..Len(Sends) : Sends[i].ok))
    /\ [][(IsBatch /\ raised /= NoError) => (Sends' = Sends /\ raised' = raised)]_vars

\* Row 2 of a three-row batch failed after row 1 was sent; row 3 was never sent.
C1_Witness ==
    /\ IsBatch /\ pc = "Failed"
    /\ Len(rows) = 3 /\ index = 1
    /\ Len(Sends) = 1 /\ Sends[1].ok
    /\ raised.type = "ValueError"

\* C2: when normalization of a row fails in a batch, the caller receives
\* that validation error itself: VALIDATION_ERROR, status 400, with the
\* normalizer's message.
C2_NormalizationErrorSurfaced ==
    (IsBatch /\ pc = "Failed" /\ raised.type = "ValueError") =>
        /\ response.error_code = "VALIDATION_ERROR"
        /\ response.status = 400
        /\ response.error = raised.message

\* C3: a template, empty-message or delivery failure of a row is surfaced
\* with its own code, status and details, whatever the logout did.
C3_OriginalErrorSurfaced ==
    (IsBatch /\ pc = "Failed" /\ raised /= NoError /\ raised.type /= "ValueError") =>
        /\ response.error_code = raised.code
        /\ response.status = raised.status
        /\ response.details = (IF Truthy(raised.details) THEN raised.details ELSE None)

\* C4: a batch whose Reading phase failed never contacts the Delivery
\* Client: its log holds no send and no logout.
C4_ReadingFailureContactsNoClient ==
    (IsBatch /\ rows = <<>>) => (Sends = <<>> /\ Logouts = <<>>)

C4_Witness ==
    /\ IsBatch /\ pc = "Failed"
    /\ response.error_code = "EXCEL_NO_ROWS"
    /\ log = <<>>

\* C5: a batch whose rows were all sent finishes as a success reporting the
\* number of rows, with the logout warning exactly when the logout failed.
C5_LogoutFailureIsWarning ==
    (IsBatch /\ Finished /\ raised = NoError /\ Logouts /= <<>>) =>
        /\ pc = "Done"
        /\ response.ok /\ response.status = 200
        /\ Len(Sends) = Len(rows)
        /\ \A i \in 1..Len(Sends) : Sends[i].ok
        /\ response.message =
             "Batch sent successfully to " \o IntToStr(Len(Sends)) \o " row(s)"
             \o (IF Logouts[1].ok
                 THEN ". You are logged out; a new QR code will be required next send."
                 ELSE ", but automatic logout failed. Restart the app before the next batch.")

C5_Witness ==
    /\ IsBatch /\ pc = "Done" /\ Len(rows) = 3
    /\ ~Logouts[1].ok
    /\ response.ok

\* C6: a batch that entered PerRowSend has issued no logout while it runs
\* and exactly one when it has finished, and that logout is the last call
\* of the batch.
C6_ExactlyOneLogout ==
    EnteredPerRowSend =>
        /\ (~Finished => Logouts = <<>>)
        /\ (Finished => Len(Logouts) = 1 /\ IsLogout(log[Len(log)]))

\* The first row failed before any send; the logout was still issued.
C6_Witness ==
    /\ EnteredPerRowSend /\ pc = "Failed"
    /\ Sends = <<>> /\ Len(Logouts) = 1

\* C7: every send of a batch carries keepSession = true.
C7_BatchKeepsSession ==
    IsBatch => \A i \in 1..Len(Sends) : Sends[i].request.payload.keepSession = TRUE

C7_Witness ==
    /\ IsBatch /\ pc = "Done" /\ Len(Sends) = 3
    /\ Sends[3].request.payload.keepSession

DispatchTable == read_contacts_table(request.file, "", "").value

SourceRow(row) ==
    DispatchTable.rows[CHOOSE r \in 1..Len(DispatchTable.rows) :
                          IntToStr(r + 1) = DictGet(row, "__row_index", "?")]

FirstNumbersColumn ==
    CHOOSE c \in 1..Len(DispatchTable.headers) :
        /\ Upper(DispatchTable.headers[c]) = "NUMBERS"
        /\ \A b \in 1..(c - 1) : Upper(DispatchTable.headers[b]) /= "NUMBERS"

\* C9: the destination the dispatcher normalizes for a row is the cell of
\* the first NUMBERS-matching column of that row.
C9_FirstNumbersColumnWins ==
    EnteredPerRowSend =>
        \A i \in 1..Len(Normalizations) :
            Normalizations[i].input
              = SourceRow(rows[Normalizations[i].row])[FirstNumbersColumn]

\* C10: every Contact Row has a NUMBERS value that is non-blank after
\* trimming.
C10_NumbersValueNonBlank ==
    \A i \in 1..Len(rows) : Strip(DictGet(rows[i], "NUMBERS", "")) /= ""

(***************************************************************************)
(* Properties of the phases of a batch dispatch.                           *)
(***************************************************************************)
\* A step of a batch from one phase to the next.  The dispatch begins when
\* Reading is entered; a request the form check rejects for lack of content
\* is answered from Idle.
PhaseStep ==
    \/ pc' = pc /\ pc = "PerRowSend"
    \/ pc = "Idle" /\ pc' = "Reading"
    \/ pc = "Idle" /\ pc' = "Failed" /\ response'.error_code = "MISSING_CONTENT"
    \/ pc = "Reading" /\ pc' \in {"PerRowSend", "Failed"}
    \/ pc = "PerRowSend" /\ pc' = "LoggingOut"
    \/ pc = "LoggingOut" /\ pc' \in {"Done", "Failed"}

\* C19: a batch moves Idle, Reading, PerRowSend, LoggingOut, Done in that
\* order; Failed is entered from Reading, or from PerRowSend by way of
\* LoggingOut; nothing follows Done or Failed; and Done means that every
\* Contact Row was sent successfully.
C19_PhasesInOrder ==
    /\ [](IsBatch =>
            /\ pc \in {"Idle", "Reading", "PerRowSend", "LoggingOut", "Done", "Failed"}
            /\ pc = "PerRowSend" => Logouts = <<>>
            /\ pc = "LoggingOut" => (raised /= NoError \/ index = Len(rows))
            /\ pc = "Done" =>
                 /\ Len(Sends) = Len(rows)
                 /\ \A i \in 1..Len(rows) : Sends[i].row = i /\ Sends[i].ok)
    /\ [][IsBatch => PhaseStep]_vars

\* A batch failed at its third row: it went through PerRowSend three times
\* and through LoggingOut.
C19_Witness ==
    /\ IsBatch /\ pc = "Failed"
    /\ Len(rows) = 3 /\ index = 2
    /\ Len(Logouts) = 1

(***************************************************************************)
(* Properties of the send variant of a batch.                              *)
(***************************************************************************)
\* What row i of the batch renders to, trimmed.
RenderedRow(i) == render_message_template(request.message, rows[i])

NormalizesAndRenders(i) ==
    /\ ~normalize_to_whatsapp_id(DictGet(rows[i], "NUMBERS", "")).raised
    /\ ~RenderedRow(i).raised

\* C20: with a media attachment every send of the batch is a send_media,
\* whose caption may be blank, and no row fails for an empty message;
\* without one every send is a send_text of a message that is not blank,
\* and a row that renders to a blank message is not sent: the batch fails
\* at it with EMPTY_ROW_MESSAGE.
C20_SendVariantFixedByMedia ==
    EnteredPerRowSend =>
        /\ \A i \in 1..Len(Sends) :
             IF has_media
             THEN /\ Sends[i].request.endpoint = "/send-media"
                  /\ Sends[i].request.payload.caption = Strip(RenderedRow(i).value)
             ELSE /\ Sends[i].request.endpoint = "/send-text"
                  /\ Sends[i].request.payload.message = Strip(RenderedRow(i).value)
                  /\ Strip(Sends[i].request.payload.message) /= ""
        /\ has_media => raised.code /= "EMPTY_ROW_MESSAGE"
        /\ (~has_media /\ pc /= "PerRowSend" /\ index < Len(rows)
              /\ NormalizesAndRenders(index + 1)
              /\ Strip(RenderedRow(index + 1).value) = "") =>
             /\ Len(Sends) = index
             /\ raised.code = "EMPTY_ROW_MESSAGE"
             /\ pc = "Failed" => (response.error_code = "EMPTY_ROW_MESSAGE"
                                    /\ response.status = 400)

\* A row with a blank caption was sent with the media.
C20_Witness ==
    /\ EnteredPerRowSend /\ has_media
    /\ Len(Sends) = 2
    /\ Sends[2].request.endpoint = "/send-media"
    /\ Sends[2].request.payload.caption = ""

\* A batch without media stopped at its second row, whose message is blank.
C20_WitnessEmptyMessage ==
    /\ EnteredPerRowSend /\ ~has_media /\ pc = "Failed"
    /\ Len(Sends) = 1
    /\ response.error_code = "EMPTY_ROW_MESSAGE"

(***************************************************************************)
(* Properties of the pacing of a batch.                                    *)
(***************************************************************************)
IsSleep(e) == e.op = "sleep"

Sleeps == SelectSeq(log, IsSleep)

\* The send of row k succeeded and row k is not the last row.
PacedSend(e) == e.op = "send" /\ e.ok /\ e.row < Len(rows)

\* C21: in a batch with a positive pacing interval one sleep follows each
\* successfully sent row except the last and nothing else, so that a batch
\* of n rows sleeps n - 1 times when every row is sent and k - 1 times when
\* it fails at row k; with an interval that is zero or negative the batch
\* never sleeps.
C21_OneSleepBetweenRows ==
    IsBatch =>
        IF request.delay_ms > 0
        THEN /\ \A i \in 1..Len(log) :
                    /\ IsSleep(log[i]) =>
                         i > 1 /\ PacedSend(log[i - 1]) /\ log[i - 1].row = log[i].row
                    /\ PacedSend(log[i]) =>
                         i < Len(log) /\ IsSleep(log[i + 1]) /\ log[i + 1].row = log[i].row
             /\ Len(Sleeps) = (IF rows = <<>> THEN 0
                               ELSE IF index < Len(rows) THEN index
                               ELSE Len(rows) - 1)
        ELSE Sleeps = <<>>

\* A batch of three rows was sent in full and slept twice.
C21_Witness ==
    /\ IsBatch /\ pc = "Done"
    /\ request.delay_ms > 0
    /\ Len(rows) = 3 /\ Len(Sends) = 3
    /\ Len(Sleeps) = 2

\* A batch of three rows was sent in full with the pacing switched off.
C21_WitnessUnpaced ==
    /\ IsBatch /\ pc = "Done"
    /\ request.delay_ms <= 0
    /\ Len(rows) = 3 /\ Len(Sends) = 3

(***************************************************************************)
(* Properties of the stored files after a failed Reading phase.            *)
(***************************************************************************)
\* The batch of a freshly uploaded file failed in parse_contacts_rows.
UploadFailedReading ==
    /\ request.source = "upload" /\ pc = "Failed"
    /\ response.error_code \in {"EXCEL_PARSE_ERROR", "EXCEL_EMPTY",
                                  "EXCEL_MISSING_NUMBERS", "EXCEL_NO_ROWS"}

\* C28: a batch whose freshly uploaded contacts file fails the Reading
\* phase leaves no new file and no new metadata entry.
C28_FailedReadingStoresNothing ==
    UploadFailedReading => uploads = <<>>

\* Only the uploads rejected before the parse (a bad filename, zero bytes)
\* leave the stored state unchanged.
C28_StoredUnlessRejectedEarly ==
    UploadFailedReading =>
        (uploads = <<>>) = (request.file.empty)

(***************************************************************************)
(* Two batches handled at the same time.  main.py starts the Flask server  *)
(* with app.run, which serves each request on a thread of its own, and     *)
(* api_send takes no lock: the threads share the one NodeApiClient and the *)
(* one backend session.  A client call is two steps, the request issued    *)
(* and the response received, and log records both with the batch.         *)
(***************************************************************************)
Threads == {1, 2}

\* Most rows of a batch handled next to another.
ServerRows == 2

\* Text batches of one to ServerRows rows, and a batch of one row whose
\* message names a column the contacts file does not have.
ServerRequests ==
    {[phone |-> "", message |-> c[1], media |-> NoMedia, source |-> "upload",
      file |-> CsvFile(<< <<"NUMBERS", "Name">> >> \o c[2]), existing |-> "",
      delay_ms |-> BATCH_SEND_DELAY_MS] :
        c \in ({"Hello {{Name}}"}
                  \X (SeqsUpTo({<<"81777444", "Ann">>}, ServerRows) \ {<<>>}))
               \cup {<<"{{Age}}", << <<"81777444", "Ann">> >> >>}}

\* What the backend answers a send and a logout of these batches.
ServerOutcomes == {Delivered, TransportFailure("timeout")}

ServerInit ==
    /\ request \in [Threads -> ServerRequests]
    /\ pc = [t \in Threads |-> "Reading"]
    /\ rows = [t \in Threads |-> <<>>]
    /\ index = [t \in Threads |-> 0]
    /\ raised = [t \in Threads |-> NoError]
    /\ log = <<>>
    /\ response = [t \in Threads |-> NoResponse]
    /\ uploads = <<>>
    /\ CONTACTS_METADATA_FILE = <<>>
    /\ locals = <<>>

\* Lines 351 and 372: the thread stores its upload and parses it.
ServerReadContacts(t) ==
    /\ pc[t] = "Reading"
    /\ uploads' = Append(uploads,
                    [name |-> StoredName(Len(uploads) + 1, request[t].file.filename),
                     file |-> request[t].file,
                     display_name |-> request[t].file.filename])
    /\ rows' = [rows EXCEPT ![t] = parse_contacts_rows(request[t].file).value]
    /\ pc' = [pc EXCEPT ![t] = "PerRowSend"]
    /\ UNCHANGED <<request, index, raised, log, response>>
    /\ UNCHANGED <<CONTACTS_METADATA_FILE, locals>>

\* Lines 378-380 for the thread's next row.
ServerRow(t) ==
    LET row == rows[t][index[t] + 1]
    IN [to |-> normalize_to_whatsapp_id(DictGet(row, "NUMBERS", "")),
        rendered |-> render_message_template(request[t].message, row)]

\* Lines 377-399: the thread reaches send_text for its next row and the
\* request leaves for the backend, or the row fails before the send.
ServerSendCall(t) ==
    /\ pc[t] = "PerRowSend"
    /\ index[t] < Len(rows[t])
    /\ \E row \in {ServerRow(t)} :
         IF row.to.raised \/ row.rendered.raised
         THEN /\ raised' = [raised EXCEPT ![t] = IF row.to.raised THEN row.to.error
                                                  ELSE row.rendered.error]
              /\ pc' = [pc EXCEPT ![t] = "LoggingOut"]
              /\ UNCHANGED log
         ELSE /\ log' = Append(log, [op |-> "send", batch |-> t, row |-> index[t] + 1,
                                     at |-> "call"])
              /\ pc' = [pc EXCEPT ![t] = "Sending"]
              /\ UNCHANGED raised
    /\ UNCHANGED <<request, rows, index, response, uploads>>
    /\ UNCHANGED <<CONTACTS_METADATA_FILE, locals>>

\* Lines 399-402: send_text returns or raises, and the loop goes on to the
\* next row after the pacing sleep, or ends.
ServerSendReturn(t) ==
    /\ pc[t] = "Sending"
    /\ \E outcome \in ServerOutcomes :
       \E call \in {send_text(ServerRow(t).to.value, Strip(ServerRow(t).rendered.value),
                              TRUE, outcome)} :
         /\ log' = Append(log, [op |-> "send", batch |-> t, row |-> index[t] + 1,
                                at |-> "return"])
         /\ IF call.result.raised
            THEN /\ raised' = [raised EXCEPT ![t] = call.result.error]
                 /\ pc' = [pc EXCEPT ![t] = "LoggingOut"]
                 /\ UNCHANGED index
            ELSE /\ index' = [index EXCEPT ![t] = index[t] + 1]
                 /\ pc' = [pc EXCEPT ![t] = IF index[t] + 1 = Len(rows[t])
                                            THEN "LoggingOut" ELSE "PerRowSend"]
                 /\ UNCHANGED raised
    /\ UNCHANGED <<request, rows, response, uploads>>
    /\ UNCHANGED <<CONTACTS_METADATA_FILE, locals>>

\* Lines 403-423: the thread's logout request leaves for the backend.
ServerLogoutCall(t) ==
    /\ pc[t] = "LoggingOut"
    /\ log' = Append(log, [op |-> "logout", batch |-> t, row |-> 0, at |-> "call"])
    /\ pc' = [pc EXCEPT ![t] = "InLogout"]
    /\ UNCHANGED <<request, rows, index, raised, response, uploads>>
    /\ UNCHANGED <<CONTACTS_METADATA_FILE, locals>>

\* Lines 403-435: logout_session returns or raises and the thread answers.
ServerLogoutReturn(t) ==
    /\ pc[t] = "InLogout"
    /\ \E outcome \in ServerOutcomes :
         LET call == logout_session(outcome)
             logout_warning == IF call.result.raised THEN call.result.error.message
                               ELSE None
         IN /\ log' = Append(log, [op |-> "logout", batch |-> t, row |-> 0,
                                   at |-> "return"])
            /\ IF raised[t] /= NoError
               THEN /\ pc' = [pc EXCEPT ![t] = "Failed"]
                    /\ response' = [response EXCEPT
                                      ![t] = ApiSendError(Reraised(raised[t]))]
               ELSE /\ pc' = [pc EXCEPT ![t] = "Done"]
                    /\ response' = [response EXCEPT
                                      ![t] = json_ok(BatchResultMessage(Len(rows[t]),
                                                                         logout_warning))]
    /\ UNCHANGED <<request, rows, index, raised, uploads>>
    /\ UNCHANGED <<CONTACTS_METADATA_FILE, locals>>

ServerNext ==
    \E t \in Threads :
        \/ ServerReadContacts(t)
        \/ ServerSendCall(t)
        \/ ServerSendReturn(t)
        \/ ServerLogoutCall(t)
        \/ ServerLogoutReturn(t)

ServerSpec == ServerInit /\ [][ServerNext]_vars

(***************************************************************************)
(* Properties of two batches handled at the same time.                     *)
(***************************************************************************)
\* Positions in log of the requests of one kind a batch issued.
IssuedBy(t, op) ==
    {i \in 1..Len(log) : log[i].op = op /\ log[i].batch = t /\ log[i].at = "call"}

\* A logout of batch a was issued after one send of batch b and before
\* another.
LogoutInsideBatch(a, b) ==
    \E j \in IssuedBy(a, "logout") :
        /\ \E i \in IssuedBy(b, "send") : i < j
        /\ \E k \in IssuedBy(b, "send") : j < k

\* C27: two batches handled at the same time do not interfere: no logout
\* of one batch is issued between the first and the last send of the
\* other, and their sends are never in flight together.
C27_BatchesDoNotInterfere ==
    /\ \A a, b \in Threads : a /= b => ~LogoutInsideBatch(a, b)
    /\ ~(\A t \in Threads : pc[t] = "Sending")

\* Sends of the two batches are never in flight together.
C27_SendsNotInFlightTogether ==
    ~(\A t \in Threads : pc[t] = "Sending")

\* No logout of one batch falls inside the sends of the other.
C27_NoLogoutInsideOtherBatch ==
    \A a, b \in Threads : a /= b => ~LogoutInsideBatch(a, b)

(***************************************************************************)
(* The metadata of the stored contacts files under concurrent requests.    *)
(* Each function reads metadata.json with load_contacts_metadata, changes  *)
(* the dict it got and writes the whole dict back with                     *)
(* save_contacts_metadata; no lock is held in between, so a thread's load  *)
(* and save are separate steps.  An entry is its display name and its      *)
(* description; the timestamps are left out.  log records the call and     *)
(* the return of each operation.                                           *)
(***************************************************************************)
\* sanitize_metadata_text.
sanitize_metadata_text(value, max_len) ==
    IF value = None THEN ""
    ELSE LET text == Strip(value)
         IN IF Len(text) > max_len THEN Slice(text, 1, max_len) ELSE text

\* Lines 100-118 of set_contacts_metadata: the loaded dict with the entry
\* of file_name set.
set_contacts_metadata(loaded, file_name, display_name, description) ==
    LET entry == DictGet(loaded, file_name, [display_name |-> "", description |-> ""])
    IN DictSet(loaded, file_name,
               [display_name |-> IF display_name /= None
                                 THEN sanitize_metadata_text(display_name, 120)
                                 ELSE entry.display_name,
                description |-> IF description /= None
                                THEN sanitize_metadata_text(description, 500)
                                ELSE entry.description])

\* Lines 144-145 of remove_contacts_metadata: the loaded dict without the
\* entry of file_name.
remove_contacts_metadata(loaded, file_name) ==
    SelectSeq(loaded, LAMBDA item : item[1] /= file_name)

\* Lines 506-510 of list_saved_contacts_files: the loaded dict without the
\* keys that name no collected file.
PruneStaleKeys(loaded, file_names) ==
    SelectSeq(loaded, LAMBDA item : item[1] \in file_names)

\* The file stored before the requests arrive, and its entry.
StoredBefore ==
    [name |-> StoredName(1, "contacts.csv"), file |-> CsvFile(<<>>)]

\* The requests: an upload, a rename of the stored file or of a file that
\* does not exist, a delete of the stored file, a listing.
MetadataRequests ==
    {[op |-> "upload", file_name |-> "team.csv", display_name |-> ""],
     [op |-> "rename", file_name |-> StoredBefore.name, display_name |-> "Team A"],
     [op |-> "rename", file_name |-> StoredBefore.name, display_name |-> " Team B "],
     [op |-> "rename", file_name |-> StoredName(9, "gone.csv"), display_name |-> "Gone"],
     [op |-> "delete", file_name |-> StoredBefore.name, display_name |-> ""],
     [op |-> "list", file_name |-> "", display_name |-> ""]}

MetadataInit ==
    /\ request \in [Threads -> MetadataRequests]
    /\ pc = [t \in Threads |-> "Idle"]
    /\ rows = <<>>
    /\ index = 0
    /\ raised = NoError
    /\ log = <<>>
    /\ response = [t \in Threads |-> NoResponse]
    /\ uploads = <<StoredBefore>>
    /\ CONTACTS_METADATA_FILE =
         set_contacts_metadata(<<>>, StoredBefore.name, StoredBefore.file.filename, "")
    /\ locals = [t \in Threads |->
                   [metadata |-> <<>>, file_names |-> {}, stored_name |-> ""]]

\* Names of the files in the upload directory.
StoredNames == {uploads[i].name : i \in 1..Len(uploads)}

Calling(t) == [op |-> request[t].op, batch |-> t, at |-> "call",
               file_name |-> request[t].file_name, display_name |-> ""]

\* The operation of thread t returns; file_name and display_name are what
\* it stored.
Returning(t, file_name, display_name) ==
    [op |-> request[t].op, batch |-> t, at |-> "return",
     file_name |-> file_name, display_name |-> display_name]

\* resolve_saved_contacts_path of a file that is not stored.
NotFound(t) ==
    /\ pc' = [pc EXCEPT ![t] = "Failed"]
    /\ response' = [response EXCEPT
                      ![t] = handle_api_exception(
                               AppError("CONTACT_FILE_NOT_FOUND",
                                        "Selected contacts file was not found.",
                                        404, None))]
    /\ log' = log \o <<Calling(t), Returning(t, "", "")>>
    /\ UNCHANGED <<uploads, locals>>

\* save_contacts_upload up to line 175: the bytes are written under a
\* name the timestamp makes the thread's own.
WriteBytes(t) ==
    /\ pc[t] = "Idle" /\ request[t].op = "upload"
    /\ \E stored_name \in {StoredName(t + 1, request[t].file_name)} :
         /\ uploads' = Append(uploads,
                         [name |-> stored_name,
                          file |-> [CsvFile(<<>>) EXCEPT
                                      !.filename = request[t].file_name]])
         /\ locals' = [locals EXCEPT ![t].stored_name = stored_name]
    /\ pc' = [pc EXCEPT ![t] = "Loading"]
    /\ log' = Append(log, Calling(t))
    /\ UNCHANGED <<request, rows, index, raised, response, CONTACTS_METADATA_FILE>>

\* api_contacts_metadata up to the call of set_contacts_metadata.
ResolveToRename(t) ==
    /\ pc[t] = "Idle" /\ request[t].op = "rename"
    /\ IF request[t].file_name \in StoredNames
       THEN /\ pc' = [pc EXCEPT ![t] = "Loading"]
            /\ locals' = [locals EXCEPT ![t].stored_name = request[t].file_name]
            /\ log' = Append(log, Calling(t))
            /\ UNCHANGED <<uploads, response>>
       ELSE NotFound(t)
    /\ UNCHANGED <<request, rows, index, raised, CONTACTS_METADATA_FILE>>

\* api_contacts_delete up to the call of remove_contacts_metadata: the
\* file is unlinked.
Unlink(t) ==
    /\ pc[t] = "Idle" /\ request[t].op = "delete"
    /\ IF request[t].file_name \in StoredNames
       THEN /\ uploads' = SelectSeq(uploads,
                                    LAMBDA f : f.name /= request[t].file_name)
            /\ pc' = [pc EXCEPT ![t] = "Loading"]
            /\ locals' = [locals EXCEPT ![t].stored_name = request[t].file_name]
            /\ log' = Append(log, Calling(t))
            /\ UNCHANGED response
       ELSE NotFound(t)
    /\ UNCHANGED <<request, rows, index, raised, CONTACTS_METADATA_FILE>>

\* list_saved_contacts_files up to line 503: the directory is read.
CollectFiles(t) ==
    /\ pc[t] = "Idle" /\ request[t].op = "list"
    /\ locals' = [locals EXCEPT ![t].file_names = StoredNames]
    /\ pc' = [pc EXCEPT ![t] = "Loading"]
    /\ log' = Append(log, Calling(t))
    /\ UNCHANGED <<request, rows, index, raised, response, uploads,
                   CONTACTS_METADATA_FILE>>

\* The dict the thread's function writes back, from the dict it loaded.
Changed(t, loaded) ==
    IF request[t].op = "upload"
    THEN set_contacts_metadata(loaded, locals[t].stored_name, request[t].file_name, "")
    ELSE IF request[t].op = "rename"
    THEN set_contacts_metadata(loaded, locals[t].stored_name,
                               sanitize_metadata_text(request[t].display_name, 120),
                               sanitize_metadata_text("", 500))
    ELSE IF request[t].op = "delete"
    THEN remove_contacts_metadata(loaded, locals[t].stored_name)
    ELSE PruneStaleKeys(loaded, locals[t].file_names)

\* What the returning operation stored.
Returned(t) ==
    Returning(t, locals[t].stored_name,
              IF request[t].op = "upload" THEN request[t].file_name
              ELSE IF request[t].op = "rename"
              THEN sanitize_metadata_text(request[t].display_name, 120)
              ELSE "")

\* load_contacts_metadata, at line 100, 143 or 505.  remove_contacts_metadata
\* and list_saved_contacts_files return without a save when they have
\* nothing to take out.
LoadMetadata(t) ==
    /\ pc[t] = "Loading"
    /\ locals' = [locals EXCEPT ![t].metadata = CONTACTS_METADATA_FILE]
    /\ IF /\ request[t].op \in {"delete", "list"}
          /\ Changed(t, CONTACTS_METADATA_FILE) = CONTACTS_METADATA_FILE
       THEN /\ pc' = [pc EXCEPT ![t] = "Done"]
            /\ response' = [response EXCEPT ![t] = json_ok(None)]
            /\ log' = Append(log, Returned(t))
       ELSE /\ pc' = [pc EXCEPT ![t] = "Saving"]
            /\ UNCHANGED <<response, log>>
    /\ UNCHANGED <<request, rows, index, raised, uploads, CONTACTS_METADATA_FILE>>

\* save_contacts_metadata, at line 119, 146 or 512, and the return.
SaveMetadata(t) ==
    /\ pc[t] = "Saving"
    /\ CONTACTS_METADATA_FILE' = Changed(t, locals[t].metadata)
    /\ pc' = [pc EXCEPT ![t] = "Done"]
    /\ response' = [response EXCEPT ![t] = json_ok(None)]
    /\ log' = Append(log, Returned(t))
    /\ UNCHANGED <<request, rows, index, raised, uploads, locals>>

MetadataNext ==
    \E t \in Threads :
        \/ WriteBytes(t)
        \/ ResolveToRename(t)
        \/ Unlink(t)
        \/ CollectFiles(t)
        \/ LoadMetadata(t)
        \/ SaveMetadata(t)

MetadataSpec == MetadataInit /\ [][MetadataNext]_vars

(***************************************************************************)
(* Properties of the metadata under concurrent requests.                   *)
(***************************************************************************)
\* Every request was answered.
AllReturned == \A t \in Threads : pc[t] \in {"Done", "Failed"}

\* Display names the completed renames gave the file.
RenamedTo(file_name) ==
    {log[i].display_name :
        i \in {j \in 1..Len(log) : /\ log[j].op = "rename" /\ log[j].at = "return"
                                   /\ log[j].file_name = file_name}}

\* The entry of a stored file holds a display name given by a completed
\* rename, or without a rename the name given at upload.
EntryKept(f) ==
    /\ DictHas(CONTACTS_METADATA_FILE, f.name)
    /\ DictGet(CONTACTS_METADATA_FILE, f.name, None).display_name
         \in (IF RenamedTo(f.name) = {} THEN {f.file.filename} ELSE RenamedTo(f.name))

\* C29: after any interleaving of uploads, renames, deletes and listings
\* no update is lost: every stored file has its metadata entry with the
\* display name given at upload, and every completed rename shows.
C29_NoMetadataUpdateLost ==
    AllReturned => \A i \in 1..Len(uploads) : EntryKept(uploads[i])

\* The operations ran one after the other: the second was called after
\* the first returned.
RanSerially ==
    \A i, j \in 1..Len(log) :
        (i < j /\ log[i].at = "call" /\ log[j].at = "call")
            => \E k \in i..j : log[k].at = "return" /\ log[k].batch = log[i].batch

\* Operations that run one after the other lose no update.
C29_SerialKeepsUpdates ==
    (AllReturned /\ RanSerially) => \A i \in 1..Len(uploads) : EntryKept(uploads[i])

(***************************************************************************)
(* The functions of the core called on their own: the request names the    *)
(* function and its arguments, and log records each call with what it      *)
(* returned or raised.                                                     *)
(***************************************************************************)
\* Header rows of the tables parse_contacts_rows is called with: with and
\* without a NUMBERS column, in any case and position.
ParseHeaderRows ==
    HeaderRows \cup {<<"numbers">>, <<"Name">>, <<" Numbers ", "Name", "Age">>,
                     <<"Phone Numbers", "Name">>, <<"", "">>, <<"Number", "NUMBER S">>}

ParseFiles ==
    ContactsFiles
    \cup {CsvFile(<<h>> \o d) : h \in ParseHeaderRows, d \in SeqsUpTo(DataRows, MaxRows - 1)}
    \cup {[filename |-> "Book.xlsx", empty |-> FALSE, readable |-> TRUE, raw_rows |-> r] :
            r \in {<< <<"Numbers", None>> >>,
                   << <<"Name", "Phone">>, <<None, None>> >>,
                   << <<None, None>>, <<"Ann", "81777444">> >>,
                   << <<"numbers">>, <<None>>, <<" ">> >>}}

ParseRequests == {[op |-> "parse", file |-> f] : f \in ParseFiles}

\* Phone inputs: a marker or other lead, a number, and a tail.
PhoneLeads == {"", "+", "00", "0", " ", "(+", "+00", "-"}

PhoneNumbers ==
    {"", "81777444", "96181777444", "0", "000", "49 (151) 23-45", "961", "abc",
     "0961 3", "tel 3"}

PhoneTails == {"", "@c.us", "\t"}

PhoneInputs == {l \o n \o t : l \in PhoneLeads, n \in PhoneNumbers, t \in PhoneTails}

\* Values of DEFAULT_COUNTRY_CODE: the default, with a +, two other
\* countries, and one without digits.
CountryCodes == {"961", "+961", "1", "44", ""}

NormalizeRequests ==
    {[op |-> "normalize", raw_phone |-> p, country_code |-> c] :
        p \in PhoneInputs, c \in CountryCodes}

\* A template is written as a sequence of parts: literal text, or a
\* placeholder {{ name }} with whitespace pad around its name.
Text(text) == [kind |-> "text", text |-> text, name |-> "", pad |-> ""]

Placeholder(name, pad) == [kind |-> "placeholder", text |-> "", name |-> name, pad |-> pad]

\* The texts hold no two braces in a row, so that the placeholders of a
\* template are those of its placeholder parts.
TemplateParts ==
    {Text("Hi "), Text("{ } "),
     Placeholder("Name", ""), Placeholder("name", " "), Placeholder("Zed", "\t"),
     Placeholder("Age", "")}

PartText(part) ==
    IF part.kind = "text" THEN part.text
    ELSE "{{" \o part.pad \o part.name \o part.pad \o "}}"

RECURSIVE TemplateOf(_)
TemplateOf(parts) ==
    IF parts = <<>> THEN "" ELSE PartText(parts[1]) \o TemplateOf(Tail(parts))

\* Contact Rows as parse_contacts_rows builds them, and the bare row of the
\* spec's rendering examples.
RenderRows ==
    {ContactRow(<<"NUMBERS", "Name">>, <<"81777444", "Ann">>, 2),
     ContactRow(<<"numbers", "name", "Age">>, <<"70123456", "", "30">>, 3),
     ContactRow(<<"Name", "Numbers", "ZED">>, <<"Bob {{Age}}", "70123456", "z">>, 4),
     ContactRow(<<"NUMBERS", "Name", "name">>, <<"81777444", "Ann", "Bob">>, 5),
     << <<"name", "Ann">> >>}

RenderRequests ==
    {[op |-> "render", parts |-> parts, template |-> TemplateOf(parts), row_map |-> r] :
        parts \in SeqsUpTo(TemplateParts, MaxRows), r \in RenderRows}

\* What the backend may do with a request: the transport fails, the body is
\* not JSON, or a response arrives with a status and a JSON body.
BackendErrors ==
    {None, "", "ACK failed for message", "Timed out waiting", "Session not ready",
     "WPP is not defined", "File too large", "unknown",
     "ACK failed: timed out", "Not ready, timed out", "Too large: ACK failed",
     "Missing \"to\" or \"message\"", "userDataDir in use", "spawn EPERM, not ready"}

BackendOutcomes ==
    {TransportFailure(k) : k \in {"timeout", "connection", "request", "bad_json"}}
    \cup {Response(status, TRUE, ok, e) :
            status \in {200, 201, 302, 400, 401, 402, 403, 404, 409, 413, 429, 500, 503,
                        599, 600},
            ok \in BOOLEAN, e \in BackendErrors}
    \cup {Response(status, FALSE, FALSE, None) : status \in {200, 204, 400, 500}}

ClientRequests ==
    {[op |-> "client", method |-> m, outcome |-> o] :
        m \in {"send_text", "send_media", "logout_session"}, o \in BackendOutcomes}

\* Edited content posted for a stored contacts file.
EditedHeaderCells == {"numbers", "Name", " name ", None, "Column 2"}

EditedHeaders ==
    {NotAList} \cup {JsonList(h) : h \in SeqsUpTo(EditedHeaderCells, MaxRows)}

EditedRows ==
    {NotAList, JsonList(<<>>),
     JsonList(<<JsonList(<<"81777444", "Ann">>), JsonList(<<"", " ">>),
                JsonList(<<"70123456">>)>>),
     JsonList(<<JsonList(<<"81777444", "Ann">>), NotAList>>),
     JsonList(<<JsonList(<<"a,b", "say \"hi\"">>), JsonList(<<"\n", None>>),
                JsonList(<<" x\ny ", "">>), JsonList(<<"1", "2\r", "3">>)>>)}

StoredFiles ==
    {CsvFile(<< <<"NUMBERS", "Name">>, <<"81777444", "Ann">> >>),
     [filename |-> "Book.xlsx", empty |-> FALSE, readable |-> TRUE,
      raw_rows |-> << <<"NUMBERS">>, <<"81777444">> >>],
     [filename |-> "Book.xlsx", empty |-> FALSE, readable |-> FALSE, raw_rows |-> <<>>]}

SaveRequests ==
    {[op |-> "save", file |-> f, headers |-> h, rows |-> r] :
        f \in StoredFiles, h \in EditedHeaders, r \in EditedRows}

\* Files for the Table Reader alone: CSV rows of unequal lengths, shorter
\* and longer than the header row, with blank cells, blank lines and headers
\* that differ in case only or are blank; and the workbooks of ParseFiles.
ReadFiles ==
    {CsvFile(<<h>> \o d) :
        h \in {<<>>, <<"a">>, <<"a", " ", "A">>},
        d \in SeqsUpTo({<<>>, <<"x">>, <<" ", "">>, <<"", "x", " y ">>,
                        <<"", "", "", "\t">>}, MaxRows)}
    \cup {CsvFile(<<>>), CsvFile(<< <<"Column 2", "">> >>)}
    \cup {f \in ParseFiles : SuffixLower(f.filename) /= ".csv"}

ReadRequests == {[op |-> "read", file |-> f] : f \in ReadFiles}

\* contacts.py 299-324; no handler calls it.
validate_contacts_file_for_upload(file) ==
    LET table == read_contacts_table(file, "EXCEL_PARSE_ERROR",
                   "Could not read the contacts file. Please check the file format.")
    IN IF table.raised THEN table
       ELSE IF table.value.headers = <<>>
       THEN Raise(AppError("EXCEL_EMPTY", "Contacts file is empty.", 400, None))
       ELSE IF \A i \in 1..Len(table.value.headers) :
                  Upper(table.value.headers[i]) /= "NUMBERS"
       THEN Raise(AppError("EXCEL_MISSING_NUMBERS",
              "Contacts file must contain a \"NUMBERS\" column in the first row.",
              400, None))
       ELSE Return(None)

\* routes.py 102-135: the checks of /api/contacts/upload and the call of
\* save_contacts_upload; the value returned is the name the file is stored
\* under.
api_contacts_upload(file) ==
    LET contacts_filename == Strip(file.filename)
        table == read_contacts_table([file EXCEPT !.filename = contacts_filename],
                   "EXCEL_PARSE_ERROR",
                   "Could not read the contacts file. Please check the file format.")
    IN IF contacts_filename = ""
       THEN Raise(AppError("CONTACTS_UPLOAD_MISSING",
                           "Choose a contacts file to upload.", 400, None))
       ELSE IF ~is_valid_contacts_filename(contacts_filename)
       THEN Raise(AppError("INVALID_CONTACTS_FILE",
                           "Upload a valid contacts file (.xlsx or .csv).", 400, None))
       ELSE IF file.empty
       THEN Raise(AppError("EXCEL_EMPTY", "Contacts file is empty.", 400, None))
       ELSE IF table.raised THEN table
       ELSE Return(StoredName(Len(uploads) + 1, contacts_filename))

\* Files posted to /api/contacts/upload: those of the parser with at most
\* one data row, and uploads without a filename.
UploadFiles ==
    {f \in ParseFiles : Len(f.raw_rows) <= 2}
    \cup {[filename |-> n, empty |-> FALSE, readable |-> TRUE,
           raw_rows |-> << <<"NUMBERS">>, <<"81777444">> >>] : n \in {"", " "}}

UploadRequests == {[op |-> "upload", file |-> f] : f \in UploadFiles}

CallRequests ==
    ParseRequests \cup NormalizeRequests \cup RenderRequests \cup ClientRequests
    \cup SaveRequests \cup ReadRequests \cup UploadRequests

CallInit ==
    /\ request \in CallRequests
    /\ pc = "Idle"
    /\ rows = <<>>
    /\ index = 0
    /\ raised = NoError
    /\ log = <<>>
    /\ response = NoResponse
    /\ uploads = IF request.op = "save"
                 THEN <<[name |-> StoredName(1, request.file.filename),
                         file |-> request.file,
                         display_name |-> request.file.filename]>>
                 ELSE <<>>
    /\ CONTACTS_METADATA_FILE = <<>>
    /\ locals = <<>>

Called(result) ==
    /\ log' = Append(log, [op |-> request.op, result |-> result])
    /\ pc' = "Returned"
    /\ UNCHANGED <<request, rows, index, raised, response, uploads>>
    /\ UNCHANGED <<CONTACTS_METADATA_FILE, locals>>

ParseCall ==
    /\ pc = "Idle"
    /\ request.op = "parse"
    /\ Called(parse_contacts_rows(request.file))

NormalizeCall ==
    /\ pc = "Idle"
    /\ request.op = "normalize"
    /\ Called(normalize_with_country_code(request.raw_phone, request.country_code))

\* The identifier a call returned is normalized again.
NormalizeAgainCall ==
    /\ pc = "Returned"
    /\ request.op = "normalize"
    /\ ~log[1].result.raised
    /\ log' = Append(log, [op |-> "normalize",
                           result |-> normalize_with_country_code(log[1].result.value,
                                                                  request.country_code)])
    /\ pc' = "Renormalized"
    /\ UNCHANGED <<request, rows, index, raised, response, uploads>>
    /\ UNCHANGED <<CONTACTS_METADATA_FILE, locals>>

RenderCall ==
    /\ pc = "Idle"
    /\ request.op = "render"
    /\ Called(render_message_template(request.template, request.row_map))

ClientCall ==
    /\ pc = "Idle"
    /\ request.op = "client"
    /\ Called(IF request.method = "send_text"
              THEN send_text("96181777444@c.us", "Hello", TRUE, request.outcome).result
              ELSE IF request.method = "send_media"
              THEN send_media("96181777444@c.us", "photo.png", "Hello",
                              "data:image/png;base64,aGk=", TRUE, request.outcome).result
              ELSE logout_session(request.outcome).result)

\* The stored file is rewritten when the call gets as far as writing it.
SaveCall ==
    /\ pc = "Idle"
    /\ request.op = "save"
    /\ \E saved \in {save_contacts_content(uploads[1].file, request.headers, request.rows)} :
         /\ uploads' = [uploads EXCEPT ![1].file = saved.file]
         /\ log' = (IF saved.written THEN <<[op |-> "write", result |-> Return(None)]>>
                    ELSE <<>>)
                   \o <<[op |-> "save", result |-> saved.result]>>
    /\ pc' = "Returned"
    /\ UNCHANGED <<request, rows, index, raised, response>>
    /\ UNCHANGED <<CONTACTS_METADATA_FILE, locals>>

\* read_contacts_table with its default error code and message.
ReadCall ==
    /\ pc = "Idle"
    /\ request.op = "read"
    /\ Called(read_contacts_table(request.file, "CONTACTS_PREVIEW_FAILED",
                                  "Could not read the selected contacts file."))

\* The file a save wrote is read back: by read_contacts_table, and by
\* parse_contacts_rows as a dispatch reads it.
ReadBackCall ==
    /\ pc = "Returned"
    /\ request.op = "save"
    /\ ~log[Len(log)].result.raised
    /\ log' = log \o <<[op |-> "read",
                         result |-> read_contacts_table(uploads[1].file,
                                      "CONTACTS_PREVIEW_FAILED",
                                      "Could not read the selected contacts file.")],
                        [op |-> "parse", result |-> parse_contacts_rows(uploads[1].file)]>>
    /\ pc' = "ReadBack"
    /\ UNCHANGED <<request, rows, index, raised, response, uploads>>
    /\ UNCHANGED <<CONTACTS_METADATA_FILE, locals>>

\* routes.py 100-157: /api/contacts/upload stores the file with its
\* metadata entry, or answers with the error.
UploadCall ==
    /\ pc = "Idle"
    /\ request.op = "upload"
    /\ \E stored_name \in {api_contacts_upload(request.file)} :
         /\ uploads' = IF stored_name.raised THEN uploads
                        ELSE Append(uploads, [name |-> stored_name.value,
                                              file |-> request.file,
                                              display_name |-> Strip(request.file.filename)])
         /\ response' = IF stored_name.raised THEN handle_api_exception(stored_name.error)
                         ELSE json_ok("Contacts file uploaded and saved.")
         /\ log' = Append(log, [op |-> "upload", result |-> stored_name])
    /\ pc' = "Returned"
    /\ UNCHANGED <<request, rows, index, raised>>
    /\ UNCHANGED <<CONTACTS_METADATA_FILE, locals>>

CallNext ==
    \/ ParseCall \/ NormalizeCall \/ NormalizeAgainCall \/ RenderCall \/ ClientCall
    \/ SaveCall \/ ReadBackCall \/ ReadCall \/ UploadCall

CallSpec == CallInit /\ [][CallNext]_vars

(***************************************************************************)
(* Properties of the Contact Row Model.                                    *)
(***************************************************************************)
Parsed == pc = "Returned" /\ request.op = "parse"

\* The Table the Table Reader yields for the file of a parse call.
ParsedTable ==
    read_contacts_table(request.file, "EXCEL_PARSE_ERROR",
                        "Could not read the contacts file. Please check the file format.")

IsTable == is_valid_contacts_filename(request.file.filename) /\ ~ParsedTable.raised

HasNumbersHeader ==
    \E i \in 1..Len(ParsedTable.value.headers) :
        Upper(ParsedTable.value.headers[i]) = "NUMBERS"

HeaderOnlyTable ==
    IsTable /\ ParsedTable.value.headers /= <<>> /\ ParsedTable.value.rows = <<>>

RaisedCode(code) == log[1].result.raised /\ log[1].result.error.code = code

\* C11 as stated: every table with a header row and zero data rows fails
\* with EXCEL_NO_ROWS.
C11_HeaderOnlyFailsNoRows ==
    (Parsed /\ HeaderOnlyTable) => RaisedCode("EXCEL_NO_ROWS")

\* C11, amended: every table whose header row has a NUMBERS header and that
\* has zero data rows fails with EXCEL_NO_ROWS, status 400.
C11_HeaderOnlyWithNumbersFailsNoRows ==
    (Parsed /\ HeaderOnlyTable /\ HasNumbersHeader) =>
        /\ RaisedCode("EXCEL_NO_ROWS")
        /\ log[1].result.error.type = "AppError"
        /\ log[1].result.error.status = 400

C11_Witness ==
    /\ Parsed /\ HeaderOnlyTable /\ HasNumbersHeader
    /\ RaisedCode("EXCEL_NO_ROWS")

\* C12 as stated: every table without a NUMBERS header fails with
\* EXCEL_MISSING_NUMBERS, whatever its number of headers and data rows.
C12_NoNumbersHeaderFailsSchema ==
    (Parsed /\ IsTable /\ ~HasNumbersHeader) => RaisedCode("EXCEL_MISSING_NUMBERS")

\* C12, amended: every table with at least one header and without a NUMBERS
\* header fails with EXCEL_MISSING_NUMBERS, status 400, whatever its number
\* of data rows.
C12_HeadersWithoutNumbersFailSchema ==
    (Parsed /\ IsTable /\ ParsedTable.value.headers /= <<>> /\ ~HasNumbersHeader) =>
        /\ RaisedCode("EXCEL_MISSING_NUMBERS")
        /\ log[1].result.error.type = "AppError"
        /\ log[1].result.error.status = 400

\* A table with two headers and data rows, none of them NUMBERS.
C12_Witness ==
    /\ Parsed /\ IsTable /\ ~HasNumbersHeader
    /\ Len(ParsedTable.value.headers) = 2 /\ Len(ParsedTable.value.rows) = 2
    /\ RaisedCode("EXCEL_MISSING_NUMBERS")

(***************************************************************************)
(* Properties of the diagnostic row index.                                 *)
(***************************************************************************)
\* Position of the first NUMBERS header of the parsed file.
ParsedNumbersColumn ==
    CHOOSE c \in 1..Len(ParsedTable.value.headers) :
        /\ Upper(ParsedTable.value.headers[c]) = "NUMBERS"
        /\ \A b \in 1..(c - 1) : Upper(ParsedTable.value.headers[b]) /= "NUMBERS"

\* The row at position p of the source file has a NUMBERS cell that is not
\* blank (the header is the row at position 1).
HasNumber(p) ==
    LET raw_row == request.file.raw_rows[p]
    IN /\ ParsedNumbersColumn <= Len(raw_row)
       /\ cell_to_text(raw_row[ParsedNumbersColumn]) /= ""

\* Positions in the source file of the rows that become Contact Rows, in
\* order.
RECURSIVE SourcePositions(_)
SourcePositions(p) ==
    IF p > Len(request.file.raw_rows) THEN <<>>
    ELSE (IF HasNumber(p) THEN <<p>> ELSE <<>>) \o SourcePositions(p + 1)

\* C22: the __row_index of every Contact Row is the 1-based position of its
\* row in the source file, the header being row 1, also after fully blank
\* rows and rows with a blank NUMBERS cell.
C22_RowIndexIsSourcePosition ==
    (Parsed /\ ~log[1].result.raised) =>
        /\ Len(log[1].result.value) = Len(SourcePositions(2))
        /\ \A i \in 1..Len(log[1].result.value) :
              DictGet(log[1].result.value[i], "__row_index", "?")
                = IntToStr(SourcePositions(2)[i])

\* C22 for the files without a fully blank row, where it holds.
C22_RowIndexWithoutBlankRows ==
    (/\ Parsed /\ ~log[1].result.raised
     /\ \A p \in 2..Len(request.file.raw_rows) :
            HasContent(RowValues(request.file.raw_rows[p],
                                 Len(ParsedTable.value.headers)))) =>
        \A i \in 1..Len(log[1].result.value) :
              DictGet(log[1].result.value[i], "__row_index", "?")
                = IntToStr(SourcePositions(2)[i])

(***************************************************************************)
(* Properties of the Table Reader.                                         *)
(***************************************************************************)
ReadCsv ==
    /\ pc = "Returned" /\ request.op = "read"
    /\ SuffixLower(request.file.filename) = ".csv"

\* Length of the longest row of the source file, the header row included.
SourceWidth ==
    IF request.file.raw_rows = <<>> THEN 0
    ELSE MaxOf({Len(request.file.raw_rows[p]) : p \in 1..Len(request.file.raw_rows)})

\* The row at position p of the source file has a cell that is not blank
\* after trimming.
HasNonBlankCell(p) ==
    \E c \in 1..Len(request.file.raw_rows[p]) : Strip(request.file.raw_rows[p][c]) /= ""

\* Positions of the data rows with a non-blank cell, in source order.
RECURSIVE NonBlankPositions(_)
NonBlankPositions(p) ==
    IF p > Len(request.file.raw_rows) THEN <<>>
    ELSE (IF HasNonBlankCell(p) THEN <<p>> ELSE <<>>) \o NonBlankPositions(p + 1)

\* C23: for every CSV input the table has as many headers as the longest of
\* the header row and the data rows, every returned row has that many cells,
\* the cells missing from the source being empty, no row shorter than the
\* header raises, and the rows returned are the data rows with a non-blank
\* cell, in source order.
C23_CsvTableIsRectangular ==
    ReadCsv =>
        /\ ~log[1].result.raised
        /\ Len(log[1].result.value.headers) = SourceWidth
        /\ Len(log[1].result.value.rows) = Len(NonBlankPositions(2))
        /\ \A r \in 1..Len(log[1].result.value.rows) :
              /\ Len(log[1].result.value.rows[r]) = SourceWidth
              /\ \A c \in 1..SourceWidth :
                    log[1].result.value.rows[r][c]
                      = (IF c <= Len(request.file.raw_rows[NonBlankPositions(2)[r]])
                         THEN Strip(request.file.raw_rows[NonBlankPositions(2)[r]][c])
                         ELSE "")

\* A CSV with a row longer than the header, a blank row and a row shorter
\* than the header was read.
C23_Witness ==
    /\ ReadCsv
    /\ request.file.raw_rows
         = << <<"a", " ", "A">>, <<"", "", "", "\t">>, <<" ", "">>, <<"x">> >>
    /\ log[1].result.value.headers = <<"a", "Column 2", "A", "Column 4">>
    /\ log[1].result.value.rows = << <<"x", "", "", "">> >>

\* The headers are pairwise distinct when blank ones are replaced by
\* Column <index> and case is ignored.
DistinctHeaders(headers) ==
    \A a \in 1..Len(headers) : \A b \in 1..Len(headers) :
        Upper(headers[a]) = Upper(headers[b]) => a = b

\* C24 as stated: every Table the Table Reader produces has headers that
\* are pairwise distinct after normalization.
C24_TableHeadersDistinct ==
    (pc = "Returned" /\ request.op = "read" /\ ~log[1].result.raised) =>
        DistinctHeaders(log[1].result.value.headers)

\* The header cell at position c of the source file, trimmed; blank when
\* the header row is shorter.
SourceHeader(c) ==
    IF c <= Len(request.file.raw_rows[1])
    THEN cell_to_text(request.file.raw_rows[1][c]) ELSE ""

\* C24, amended: every header of a Table the Table Reader produces is the
\* trimmed header cell of its position, or Column <1-based position> where
\* that cell is blank or missing, so that no header is blank; the headers
\* need not be distinct.
C24_TableHeadersDefaulted ==
    (pc = "Returned" /\ request.op = "read" /\ ~log[1].result.raised) =>
        \A c \in 1..Len(log[1].result.value.headers) :
            /\ log[1].result.value.headers[c] /= ""
            /\ log[1].result.value.headers[c]
                 = (IF SourceHeader(c) /= "" THEN SourceHeader(c)
                    ELSE "Column " \o IntToStr(c))

\* A Table was read whose first and third headers differ in case only and
\* whose second header was defaulted.
C24_Witness ==
    /\ pc = "Returned" /\ request.op = "read" /\ ~log[1].result.raised
    /\ log[1].result.value.headers = <<"a", "Column 2", "A">>
    /\ ~DistinctHeaders(log[1].result.value.headers)

(***************************************************************************)
(* Properties of the Identifier Normalizer.                                *)
(***************************************************************************)
Normalized == pc \in {"Returned", "Renormalized"} /\ request.op = "normalize"

\* C13: an identifier the normalizer returned is returned unchanged when it
\* is normalized again under the same country code.
C13_IdempotentOnOutputs ==
    (pc = "Renormalized" /\ request.op = "normalize") =>
        log[2].result = log[1].result

\* The phone text of a request as the claim reads it: trimmed, without the
\* canonical suffix, without spaces, hyphens and parentheses.
PhoneText ==
    LET trimmed == Strip(request.raw_phone)
    IN DropChars(IF EndsWith(trimmed, "@c.us")
                 THEN SubSeq(trimmed, 1, Len(trimmed) - 5) ELSE trimmed,
                 {" ", "-", "(", ")"})

HasPlusMarker == StartsWith(PhoneText, "+")

HasZeroZeroMarker == ~HasPlusMarker /\ StartsWith(PhoneText, "00")

IsMarked == HasPlusMarker \/ HasZeroZeroMarker

\* The digits of the number, after its marker.
NumberDigits ==
    KeepChars(IF HasPlusMarker THEN Slice(PhoneText, 2, Len(PhoneText))
              ELSE IF HasZeroZeroMarker THEN Slice(PhoneText, 3, Len(PhoneText))
              ELSE PhoneText, Digits)

CountryDigits == KeepChars(request.country_code, Digits)

IsDigitString(d) == d /= "" /\ \A i \in 1..Len(d) : Ch(d, i) \in Digits

OnlyZeros(d) == d /= "" /\ \A i \in 1..Len(d) : Ch(d, i) = "0"

\* C14: a returned identifier is <digits>@c.us with a non-empty string of
\* digits: the country-code digits followed by the number without its
\* leading zeros when the input is unmarked and its digits do not start with
\* the country-code digits, and the digits of the number as they are
\* otherwise.  A blank input, an input without digits and an unmarked number
\* of zeros only fail with a ValueError.  The three examples of the claim
\* are returned as it says.
C14_NormalizedIdentifier ==
    Normalized =>
        LET result == log[1].result
            digits == IF Len(result.value) > 5
                      THEN SubSeq(result.value, 1, Len(result.value) - 5) ELSE ""
        IN /\ ~result.raised =>
                /\ EndsWith(result.value, "@c.us")
                /\ IsDigitString(digits)
                /\ IF ~IsMarked /\ ~StartsWith(NumberDigits, CountryDigits)
                   THEN digits = CountryDigits \o LStripChar(NumberDigits, "0")
                   ELSE digits = NumberDigits
           /\ (Strip(request.raw_phone) = "" \/ NumberDigits = ""
                 \/ (~IsMarked /\ OnlyZeros(NumberDigits)))
                => (result.raised /\ result.error.type = "ValueError")
           /\ request.country_code = "961" =>
                /\ request.raw_phone = "81777444" => result = Return("96181777444@c.us")
                /\ request.raw_phone = "+96181777444" => result = Return("96181777444@c.us")
                /\ request.raw_phone = "0081777444" => result = Return("81777444@c.us")

\* The 00 marker of the claim's third example was taken off and no country
\* code was prepended.
C14_Witness ==
    /\ Normalized
    /\ request.raw_phone = "0081777444" /\ request.country_code = "961"
    /\ log[1].result = Return("81777444@c.us")

(***************************************************************************)
(* Properties of the Template Renderer.                                    *)
(***************************************************************************)
Rendered == pc = "Returned" /\ request.op = "render"

\* The row keys equal to name ignoring case and surrounding whitespace.
MatchingKeys(name) ==
    {i \in 1..Len(request.row_map) :
        Lower(Strip(request.row_map[i][1])) = Lower(Strip(name))}

PlaceholderParts ==
    {i \in 1..Len(request.parts) : request.parts[i].kind = "placeholder"}

UnresolvedNames ==
    {request.parts[i].name : i \in {j \in PlaceholderParts :
                                      MatchingKeys(request.parts[j].name) = {}}}

\* C15: a template with an unresolved placeholder yields no text but one
\* MISSING_TEMPLATE_VARIABLE error, status 400, that lists all unresolved
\* names of the template and no other, sorted and each once, and carries
\* the row's index.
C15_AllMissingNamesReported ==
    (Rendered /\ UnresolvedNames /= {}) =>
        LET result == log[1].result
        IN /\ result.raised /\ result.value = None
           /\ result.error.type = "AppError"
           /\ result.error.code = "MISSING_TEMPLATE_VARIABLE"
           /\ result.error.status = 400
           /\ result.error.message =
                "Missing column(s) in contacts file for placeholders: "
                  \o Join(", ", Sorted(UnresolvedNames)) \o "."
           /\ result.error.details =
                "Row " \o DictGet(request.row_map, "__row_index", "?")

\* Two names are missing, the second one before a placeholder that resolves
\* and given in the template before the first one of the list.
C15_Witness ==
    /\ Rendered
    /\ request.template = "{{\tZed\t}}{{Age}}{{Name}}"
    /\ DictGet(request.row_map, "__row_index", "?") = "2"
    /\ log[1].result.raised
    /\ log[1].result.error.message =
         "Missing column(s) in contacts file for placeholders: Age, Zed."

\* The text the parts render to: literal text as it is, a placeholder as a
\* value of a row key that matches its name.
RECURSIVE Renderings(_)
Renderings(parts) ==
    IF parts = <<>> THEN {""}
    ELSE LET heads == IF parts[1].kind = "text" THEN {parts[1].text}
                      ELSE {request.row_map[i][2] : i \in MatchingKeys(parts[1].name)}
         IN {h \o t : h \in heads, t \in Renderings(Tail(parts))}

\* C16: a template all of whose placeholders resolve is returned with each
\* placeholder replaced by the value of the matching row key and every
\* other text unchanged; without placeholders it is returned unchanged, and
\* the empty template gives the empty string.
C16_ResolvedTemplateRendered ==
    (Rendered /\ UnresolvedNames = {}) =>
        LET result == log[1].result
        IN /\ ~result.raised
           /\ result.value \in Renderings(request.parts)
           /\ PlaceholderParts = {} => result.value = request.template
           /\ request.template = "" => result.value = ""

\* The spec's example with a literal brace: names match in another case and
\* with padding.
C16_Witness ==
    /\ Rendered
    /\ request.template = "Hi {{Name}}{{ name }}"
    /\ request.row_map = << <<"name", "Ann">> >>
    /\ log[1].result = Return("Hi AnnAnn")

(***************************************************************************)
(* Properties of the Delivery Client.                                      *)
(***************************************************************************)
ClientCalled == pc = "Returned" /\ request.op = "client"

\* C17: whatever the backend does, a client operation returns nothing or
\* raises an AppError with a code; a timeout, a refused connection and a
\* body that is not JSON raise NODE_API_TIMEOUT, NODE_API_UNREACHABLE and
\* NODE_API_BAD_RESPONSE.
C17_EveryOutcomeClassified ==
    ClientCalled =>
        LET result == log[1].result
        IN /\ \/ result = Return(None)
              \/ /\ result.raised
                 /\ result.error.type = "AppError"
                 /\ result.error.code /= ""
           /\ request.outcome.kind = "timeout" =>
                result.raised /\ result.error.code = "NODE_API_TIMEOUT"
           /\ request.outcome.kind = "connection" =>
                result.raised /\ result.error.code = "NODE_API_UNREACHABLE"
           /\ request.outcome.kind = "bad_json" =>
                result.raised /\ result.error.code = "NODE_API_BAD_RESPONSE"

(***************************************************************************)
(* Properties of the upload of a contacts file.                            *)
(***************************************************************************)
Uploaded == pc = "Returned" /\ request.op = "upload"

\* The posted file can be read and its Table has a NUMBERS header.
UploadHasNumbers ==
    /\ request.file.readable
    /\ \E table \in {read_contacts_table(request.file, "", "").value} :
         \E i \in 1..Len(table.headers) : Upper(table.headers[i]) = "NUMBERS"

\* C26: a posted file that is unreadable, empty or without a NUMBERS header
\* is rejected by the upload and is neither stored nor given a metadata
\* entry.
C26_InvalidUploadNotStored ==
    (Uploaded /\ (~request.file.readable \/ request.file.empty \/ ~UploadHasNumbers)) =>
        /\ log[1].result.raised
        /\ ~response.ok
        /\ uploads = <<>>

\* The files C26 is about are those validate_contacts_file_for_upload
\* rejects.
C26_ValidatorRejects ==
    (Uploaded /\ ~request.file.empty
              /\ (~request.file.readable \/ ~UploadHasNumbers)) =>
        validate_contacts_file_for_upload(request.file).raised

(***************************************************************************)
(* Properties of map_node_error.                                           *)
(***************************************************************************)
\* The client handed the backend's failure to map_node_error: the response
\* was a 4xx or 5xx, or a send was answered with a body that is not ok.
IsMapped ==
    /\ ClientCalled
    /\ request.outcome.kind = "response"
    /\ \/ ~ResponseOk(request.outcome)
       \/ /\ request.method /= "logout_session"
          /\ request.outcome.is_object /\ ~request.outcome.ok

\* The status code and the error text map_node_error is called with.
MappedStatus == IF ResponseOk(request.outcome) THEN 502 ELSE request.outcome.status

MappedText ==
    IF request.outcome.is_object /\ Truthy(request.outcome.error)
    THEN request.outcome.error ELSE ""

\* The rules in their priority order, each with its error code, its status
\* and whether it matches the status code and the lowercased error text.
MappingRules(status, lowered) ==
    <<[code |-> "WHATSAPP_WPP_MISSING", status |-> 503,
       hit |-> Contains(lowered, "wpp is not defined")],
      [code |-> "BROWSER_PROFILE_LOCKED", status |-> 409,
       hit |-> \/ Contains(lowered, "browser is already running")
               \/ Contains(lowered, "userdatadir")
               \/ Contains(lowered, "singletonlock")],
      [code |-> "WHATSAPP_BROWSER_LAUNCH_FAILED", status |-> 503,
       hit |-> Contains(lowered, "spawn eperm") \/ Contains(lowered, "error no open browser")],
      [code |-> "WHATSAPP_NOT_READY", status |-> 503,
       hit |-> Contains(lowered, "not ready") \/ status = 503],
      [code |-> "DELIVERY_TIMEOUT", status |-> 504, hit |-> Contains(lowered, "timed out")],
      [code |-> "DELIVERY_FAILED", status |-> 502, hit |-> Contains(lowered, "ack failed")],
      [code |-> "MEDIA_TOO_LARGE", status |-> 413,
       hit |-> status = 413 \/ Contains(lowered, "too large")],
      [code |-> "NODE_API_BAD_REQUEST", status |-> 400,
       hit |-> status = 400 \/ Contains(lowered, "missing \"to\" or \"message\"")],
      [code |-> "NODE_API_UNAUTHORIZED", status |-> 401, hit |-> status = 401],
      [code |-> "NODE_API_FORBIDDEN", status |-> 403, hit |-> status = 403],
      [code |-> "NODE_API_ROUTE_NOT_FOUND", status |-> 404, hit |-> status = 404],
      [code |-> "NODE_API_CONFLICT", status |-> 409, hit |-> status = 409],
      [code |-> "NODE_API_RATE_LIMIT", status |-> 429, hit |-> status = 429],
      [code |-> "NODE_API_SERVER_ERROR", status |-> status,
       hit |-> 500 <= status /\ status <= 599],
      [code |-> "WHATSAPP_API_ERROR", status |-> status, hit |-> TRUE]>>

FirstMatch(rules) ==
    rules[CHOOSE i \in 1..Len(rules) : rules[i].hit /\ \A j \in 1..(i - 1) : ~rules[j].hit]

\* C25: a backend failure is classified by the first rule that matches its
\* status code and lowercased error text, in the order not ready, delivery
\* timeout, delivery failure, payload too large, the status bands 400, 401,
\* 403, 404, 409, 429 and 5xx, and else the unexpected error with the
\* original status code; the details are the backend's error text.
C25_FirstMatchingRuleClassifies ==
    IsMapped =>
        \E rule \in {FirstMatch(MappingRules(MappedStatus, Lower(MappedText)))} :
            /\ log[1].result.raised
            /\ log[1].result.error.type = "AppError"
            /\ log[1].result.error.code = rule.code
            /\ log[1].result.error.status = rule.status
            /\ log[1].result.error.details = MappedText

\* A failure that matches both the timeout and the delivery-failure rule
\* was classified as a timeout.
C25_Witness ==
    /\ IsMapped
    /\ request.outcome.status = 200
    /\ request.outcome.error = "ACK failed: timed out"
    /\ log[1].result.error.code = "DELIVERY_TIMEOUT"
    /\ log[1].result.error.details = "ACK failed: timed out"

\* A 402 fell through to the unexpected error, which keeps the status.
C25_WitnessUnexpected ==
    /\ IsMapped
    /\ request.outcome.status = 402
    /\ log[1].result.error.code = "WHATSAPP_API_ERROR"
    /\ log[1].result.error.status = 402

(***************************************************************************)
(* Properties of save_contacts_content.                                    *)
(***************************************************************************)
Saved == pc = "Returned" /\ request.op = "save"

\* The headers of a save request after defaulting the blank ones.
DefaultedEditedHeaders ==
    [i \in 1..Len(request.headers.items) |->
        IF request.headers.items[i] = None \/ Strip(request.headers.items[i]) = ""
        THEN "Column " \o IntToStr(i)
        ELSE Strip(request.headers.items[i])]

WritableHeaders ==
    LET h == DefaultedEditedHeaders
    IN /\ request.headers.is_list
       /\ Len(h) >= 1
       /\ Cardinality({i \in 1..Len(h) : Upper(h[i]) = "NUMBERS"}) = 1
       /\ \A i, j \in 1..Len(h) : i /= j => Upper(h[i]) /= Upper(h[j])

FileWritten == \E i \in 1..Len(log) : log[i].op = "write"

\* C18: the stored file is written only when the defaulted headers are at
\* least one, hold exactly one NUMBERS (in any case) and are pairwise
\* distinct ignoring case; otherwise the call fails with an AppError of
\* status 400 and the stored file is what it was.
C18_WrittenOnlyWithValidHeaders ==
    Saved =>
        /\ FileWritten => WritableHeaders
        /\ ~WritableHeaders =>
             /\ log[Len(log)].result.raised
             /\ log[Len(log)].result.error.type = "AppError"
             /\ log[Len(log)].result.error.status = 400
             /\ log[Len(log)].result.error.code
                  \in {"INVALID_CONTACTS_CONTENT", "EXCEL_MISSING_NUMBERS"}
             /\ ~FileWritten
             /\ uploads[1].file = request.file

\* Three headers, the blank one defaulted, were written with the NUMBERS
\* header in capitals.
C18_Witness ==
    /\ Saved /\ FileWritten
    /\ request.headers = JsonList(<<" name ", "numbers", None>>)
    /\ uploads[1].file.raw_rows[1] = <<"name", "NUMBERS", "Column 3">>
    /\ uploads[1].file /= request.file

(***************************************************************************)
(* Properties of the round trip of saved CSV content.                      *)
(***************************************************************************)
\* A CSV file was saved and read back; the log holds the write, the save,
\* the read and the parse.
CsvReadBack ==
    /\ pc = "ReadBack"
    /\ SuffixLower(request.file.filename) = ".csv"

\* The cleaned headers: defaulted, and the NUMBERS header in capitals.
ExpectedHeaders ==
    [i \in 1..Len(DefaultedEditedHeaders) |->
        IF Upper(DefaultedEditedHeaders[i]) = "NUMBERS" THEN "NUMBERS"
        ELSE DefaultedEditedHeaders[i]]

\* Cell c of the posted row r, trimmed; blank when missing or None.
ExpectedCell(r, c) ==
    IF c > Len(request.rows.items[r].items) THEN ""
    ELSE IF request.rows.items[r].items[c] = None THEN ""
    ELSE Strip(request.rows.items[r].items[c])

\* The cleaned rows that are not blank, from the posted row r on.
RECURSIVE ExpectedRows(_)
ExpectedRows(r) ==
    IF r > Len(request.rows.items) THEN <<>>
    ELSE (IF \E c \in 1..Len(request.headers.items) : ExpectedCell(r, c) /= ""
          THEN <<[c \in 1..Len(request.headers.items) |-> ExpectedCell(r, c)]>>
          ELSE <<>>) \o ExpectedRows(r + 1)

====
